---- MODULE Spec2Model ----
(***************************************************************************)
(* BookVision RAG chatbot: the vector store (app/embed_store.py), the      *)
(* ingestion pipeline (app/ingest.py) and the background upload task       *)
(* (app/main.py), as a state machine.                                      *)
(*                                                                         *)
(* Worker threads run EmbedStore.add, EmbedStore.add_batch and the         *)
(* background PDF task statement group by statement group; the event loop  *)
(* serves search and get_stats between any two of their steps.  Nothing in *)
(* the source locks the store, so every interleaving of the steps below is *)
(* a behaviour of the program.  One call of a faiss method (index.add,     *)
(* index.search) and one list.append are taken as single steps.            *)
(***************************************************************************)
EXTENDS Integers, Sequences, FiniteSets, TLC

VARIABLES index, origin, meta, vecFile, metaFile, images, status, pc, call,
          ncalls, resp,
          fileOrigin,    \* which record was supplied with each vector of vecFile
          uploadFile,    \* the files of the upload directory: by name, the upload whose bytes it holds
          redis_client,  \* Cache.redis_client is set (the backend answered the ping)
          redisDb,       \* the entries of the Redis server, by key
          memory_cache,  \* Cache.memory_cache, in insertion order
          lastSet,       \* for each key, its last set (tier, value), whether its ttl elapsed, whether a clear followed
          statusWritable \* the status directory accepts writes

vars == <<index, origin, meta, vecFile, metaFile, images, status, pc, call,
          ncalls, resp, fileOrigin, uploadFile, redis_client, redisDb, memory_cache, lastSet,
          statusWritable>>

\* the state of the embedding store and of the uploads
storeVars == <<index, origin, meta, vecFile, metaFile, images, status, pc, call,
               fileOrigin, uploadFile, statusWritable>>

\* the state of the cache
cacheVars == <<redis_client, redisDb, memory_cache, lastSet>>

(***************************************************************************)
(* Bounds of the model.                                                    *)
(***************************************************************************)
\* operations (uploads, searches, get_stats) started in one behaviour of the
\* application
MaxCalls == 2
\* operations (add, add_batch, searches, get_stats) one caller of the store
\* starts in one behaviour
MaxApiCalls == 3
\* largest top_k a search is given
MaxK == 2

Threads == {"t1", "t2"}

Min(a, b) == IF a < b THEN a ELSE b

(***************************************************************************)
(* Texts and the embedder.                                                 *)
(***************************************************************************)
\* Texts are "a", "b", "c", the empty "" and the whitespace-only " ".

\* `not s or not s.strip()`
Blank(s) == s = "" \/ s = " "

\* SentenceTransformer.encode: one fixed vector per text.  "a" and "c" embed
\* to the same direction with different lengths, "b" to another direction.
Encode(s) ==
    CASE s = "a" -> <<3, 4>>
      [] s = "b" -> <<4, 3>>
      [] s = "c" -> <<6, 8>>
      [] OTHER   -> <<0, 0>>

\* Components and norms are fixed-point numbers: Unit stands for 1.0, so
\* <<3, 4>> is (0.6, 0.8), a vector of norm 1.0, and <<6, 8>> has norm 2.0.
Unit == 5

RECURSIVE IsqrtFrom(_, _)
IsqrtFrom(n, r) == IF (r + 1) * (r + 1) > n THEN r ELSE IsqrtFrom(n, r + 1)

\* np.linalg.norm of a vector
Norm(v) == IsqrtFrom(v[1] * v[1] + v[2] * v[2], 0)

\* EmbedStore._normalize
Normalize(v) ==
    IF Norm(v) > 0
    THEN <<(v[1] * Unit) \div Norm(v), (v[2] * Unit) \div Norm(v)>>
    ELSE v

\* norms = np.linalg.norm(...); norms[norms == 0] = 1
RowNorm(v) == IF Norm(v) = 0 THEN Unit ELSE Norm(v)

\* the vectorized normalization of add_batch: embeddings / norms
NormalizeRows(embs) ==
    [i \in DOMAIN embs |->
        <<(embs[i][1] * Unit) \div RowNorm(embs[i]),
          (embs[i][2] * Unit) \div RowNorm(embs[i])>>]

\* inner product of two vectors (IndexFlatIP)
Dot(u, v) == u[1] * v[1] + u[2] * v[2]

(***************************************************************************)
(* Metadata records.  A dict is a record; None is the record NoneMd.       *)
(***************************************************************************)
NoneMd == [none |-> TRUE]

IsDict(m) == "none" \notin DOMAIN m

\* the metadata dict ingest_pdf / ingest_image build for one chunk
\* (book_title and source are carried along like page and are left out)
ChunkMetadata(book, page) == [book_id |-> book, page |-> page]

\* md = meta.copy(); md["chunk_text"] = chunk
WithChunkText(m, chunk) == [chunk_text |-> chunk] @@ m

\* m = self.meta[idx].copy(); m["score"] = float(dist)
WithScore(m, dist) == [score |-> dist] @@ m

(***************************************************************************)
(* add_batch: guard, filter, embedding.                                    *)
(***************************************************************************)
\* add_batch without the comparison of the two lengths
BatchAccepted_NoLengthCheck(chunks, mds) == chunks # <<>>

\* the negation of `if not chunks or len(chunks) != len(metadata_list): return`
BatchAccepted(chunks, mds) == chunks # <<>> /\ Len(chunks) = Len(mds)

\* zip(chunks, metadata_list)
Zip(chunks, mds) ==
    [i \in 1..Min(Len(chunks), Len(mds)) |-> <<chunks[i], mds[i]>>]

\* a loop that finds no chunk worth keeping
KeepPair_DropsAll(pr) == FALSE

\* `if chunk and chunk.strip()`
KeepPair(pr) == ~Blank(pr[1])

\* the loop that fills valid_chunks and valid_metadata, as a list of pairs
ValidPairs(chunks, mds) == SelectSeq(Zip(chunks, mds), KeepPair)

ValidChunks(chunks, mds) ==
    [i \in DOMAIN ValidPairs(chunks, mds) |-> ValidPairs(chunks, mds)[i][1]]

\* a filter that drops the blank chunks but keeps the leading metadata records
ValidMetadata_FromFront(chunks, mds) ==
    [i \in DOMAIN ValidPairs(chunks, mds) |-> mds[i]]

ValidMetadata(chunks, mds) ==
    [i \in DOMAIN ValidPairs(chunks, mds) |-> ValidPairs(chunks, mds)[i][2]]

\* model.encode over the batches of 100, stacked, then normalized row by row
BatchEmbeddings(valid) == NormalizeRows([i \in DOMAIN valid |-> Encode(valid[i])])

\* the embedding add() computes for its one chunk
AddEmbedding(chunk) == <<Normalize(Encode(chunk))>>

\* self.index.add(embeddings): faiss appends every row, in order
IndexAdd(idx, embs) == idx \o embs

\* an index that has appended the first row when it raises
IndexAddRaised_Partial(idx, embs) == idx \o SubSeq(embs, 1, 1)

\* self.index.add(embeddings) raising (wrong dimension, no memory): faiss
\* checks before it appends, so the index is as it was
IndexAddRaised(idx, embs) == idx

\* a metadata list that grows at the front
MetaAppend_AtFront(mt, md) == <<md>> \o mt

\* self.meta.append(md)
MetaAppend(mt, md) == Append(mt, md)

(***************************************************************************)
(* _save: the index file is written only when the index is not empty, then *)
(* the metadata file.  Every exception is caught and printed, so the three *)
(* outcomes are: both written, write_index failed (neither written), the   *)
(* metadata write failed (index file written, metadata file as it was).    *)
(***************************************************************************)
SaveOutcomes == {"ok", "index_failed", "meta_failed"}

SavedVecFile(outcome, idx, old) ==
    IF outcome # "index_failed" /\ Len(idx) > 0 THEN idx ELSE old

SavedMetaFile(outcome, mt, old) == IF outcome = "ok" THEN mt ELSE old

(***************************************************************************)
(* Inputs.                                                                 *)
(***************************************************************************)
\* what callers pass to add(chunk_text, metadata): a page number, 0 for None
AddInputs ==
    { <<"a", 1>>, <<" ", 1>>, <<"b", 0>> }

\* what callers pass to add_batch(chunks, metadata_list): the chunks and, per
\* metadata record, its page number (0 for a record that is None)
BatchInputs ==
    { <<<<"a", "b">>, <<1, 2>>>>,
      <<<<" ", "b">>, <<1, 2>>>>,
      <<<<"a", "b">>, <<1>>>>,
      <<<<"a">>, <<1, 2>>>>,
      <<<<>>, <<>>>>,
      <<<<" ">>, <<1>>>>,
      <<<<"a", "b">>, <<1, 0>>>> }

\* what extract_and_chunk_pdf returns as chunks_with_pages; <<>> is both a
\* document without text and an extraction failure
Docs ==
    { <<>>,
      <<<<"b", 1>>>>,
      <<<<"a", 1>>, <<"c", 2>>>> }

InputMds(book, pages) ==
    [i \in DOMAIN pages |->
        IF pages[i] = 0 THEN NoneMd ELSE ChunkMetadata(book, pages[i])]

\* ingest_pdf lines 51-63: chunks_list and metadata_list from chunks_with_pages
ChunksList(doc) == [i \in DOMAIN doc |-> doc[i][1]]

MetadataList(book, doc) == [i \in DOMAIN doc |-> ChunkMetadata(book, doc[i][2])]

(***************************************************************************)
(* State.                                                                  *)
(***************************************************************************)
NoCall == [op |-> "none"]

NoResp == [kind |-> "none"]

NoStatus == [status |-> "none", progress |-> 0]

\* _update_status: the status file of the task is overwritten
UpdateStatus(st, task, progress, state) ==
    [st EXCEPT ![task] = [status |-> state, progress |-> progress]]

\* _update_status as the task sees it: a failed write is logged and dropped
\* (lines 91-92), the file stays as it was
WriteStatus(st, task, progress, state) ==
    IF statusWritable THEN UpdateStatus(st, task, progress, state) ELSE st

Resting == {"idle", "returned", "raised", "done", "error"}

Init ==
    /\ index = <<>>
    /\ origin = <<>>
    /\ meta = <<>>
    /\ vecFile = <<>>
    /\ metaFile = <<>>
    /\ images = {}
    /\ status = [c \in 1..(MaxCalls + MaxApiCalls) |-> NoStatus]
    /\ pc = [t \in Threads |-> "idle"]
    /\ call = [t \in Threads |-> NoCall]
    /\ ncalls = 0
    /\ resp = NoResp
    /\ fileOrigin = <<>>
    /\ uploadFile = <<>>
    /\ redis_client = FALSE
    /\ redisDb = <<>>
    /\ memory_cache = <<>>
    /\ lastSet = <<>>
    /\ statusWritable = TRUE

NewCall(op, book, chunks, mds) ==
    [op |-> op, book |-> book, doc |-> <<>>, chunks |-> chunks, mds |-> mds,
     i |-> 0, failedAt |-> "none", allReturned |-> TRUE]

\* every call the thread made since the process started has returned normally
AllReturned(t) ==
    /\ pc[t] \in {"idle", "returned", "done"}
    /\ call[t].op # "none" => call[t].allReturned

\* the chunks and metadata records the running call appends, in order
CallChunks(c) ==
    IF c.op = "add" THEN c.chunks ELSE ValidChunks(c.chunks, c.mds)

CallMetadata(c) ==
    IF c.op = "add" THEN c.mds ELSE ValidMetadata(c.chunks, c.mds)

CallEmbeddings(c) ==
    IF c.op = "add" THEN AddEmbedding(c.chunks[1])
    ELSE BatchEmbeddings(ValidChunks(c.chunks, c.mds))

\* which record was supplied with each vector of the call
CallOrigin(c) ==
    [i \in DOMAIN CallChunks(c) |->
        [book |-> c.book, chunk |-> CallChunks(c)[i], md |-> CallMetadata(c)[i]]]

\* main.py line 123: the error status, with the message of the exception
WriteError(st, task, message) ==
    IF statusWritable
    THEN [st EXCEPT ![task] = [status |-> "error", progress |-> 0, error |-> message]]
    ELSE st

\* an exception leaves the call: the background task catches it and writes the
\* error status (main.py 121-123); add and add_batch raise to their caller
Raise(t, where) ==
    /\ call' = [call EXCEPT ![t].failedAt = where]
    /\ IF call[t].op = "ingest"
       THEN /\ pc' = [pc EXCEPT ![t] = "error"]
            /\ status' = WriteError(status, call[t].book, where)
       ELSE /\ pc' = [pc EXCEPT ![t] = "raised"]
            /\ status' = status

\* progress_callback is given by the background task only
Progress(t, percent) ==
    IF call[t].op = "ingest"
    THEN WriteStatus(status, call[t].book, percent, "processing")
    ELSE status

(***************************************************************************)
(* Calls.                                                                  *)
(***************************************************************************)
\* EmbedStore.add up to the embedding: a blank chunk returns at once
CallAdd(t) ==
    /\ pc[t] \in Resting
    /\ ncalls < MaxApiCalls
    /\ \E inp \in AddInputs :
          /\ call' = [call EXCEPT ![t] =
                [NewCall("add", ncalls + 1, <<inp[1]>>, InputMds(ncalls + 1, <<inp[2]>>))
                    EXCEPT !.allReturned = AllReturned(t)]]
          /\ pc' = [pc EXCEPT ![t] = IF Blank(inp[1]) THEN "returned" ELSE "embed"]
    /\ ncalls' = ncalls + 1
    /\ resp' = NoResp
    /\ UNCHANGED <<index, origin, meta, vecFile, metaFile, images, status, fileOrigin, uploadFile, statusWritable>>
    /\ UNCHANGED cacheVars

\* EmbedStore.add_batch up to the embedding: the guard and the filter
CallAddBatch(t) ==
    /\ pc[t] \in Resting
    /\ ncalls < MaxApiCalls
    /\ \E inp \in BatchInputs :
          LET mds == InputMds(ncalls + 1, inp[2]) IN
          /\ call' = [call EXCEPT ![t] =
                [NewCall("add_batch", ncalls + 1, inp[1], mds)
                    EXCEPT !.allReturned = AllReturned(t)]]
          /\ pc' = [pc EXCEPT ![t] =
                IF BatchAccepted(inp[1], mds) /\ ValidChunks(inp[1], mds) # <<>>
                THEN "embed" ELSE "returned"]
    /\ ncalls' = ncalls + 1
    /\ resp' = NoResp
    /\ UNCHANGED <<index, origin, meta, vecFile, metaFile, images, status, fileOrigin, uploadFile, statusWritable>>
    /\ UNCHANGED cacheVars

\* upload_pdf with background processing: the task is queued and the request
\* returns the task id; no status file exists yet
CallUpload(t) ==
    /\ pc[t] \in Resting
    /\ ncalls < MaxCalls
    /\ call' = [call EXCEPT ![t] =
          [NewCall("ingest", ncalls + 1, <<>>, <<>>)
              EXCEPT !.allReturned = AllReturned(t)]]
    /\ pc' = [pc EXCEPT ![t] = "queued"]
    /\ ncalls' = ncalls + 1
    /\ resp' = NoResp
    /\ UNCHANGED <<index, origin, meta, vecFile, metaFile, images, status, fileOrigin, uploadFile, statusWritable>>
    /\ UNCHANGED cacheVars

\* _process_pdf_background starts: _update_status(task_id, 5, ...)
StartTask(t) ==
    /\ pc[t] = "queued"
    /\ pc' = [pc EXCEPT ![t] = "extract"]
    /\ status' = WriteStatus(status, call[t].book, 5, "processing")
    /\ resp' = NoResp
    /\ UNCHANGED <<index, origin, meta, vecFile, metaFile, images, call, ncalls, fileOrigin, uploadFile, statusWritable>>
    /\ UNCHANGED cacheVars

\* an ingest_pdf without the check of line 44
NoChunks_Unchecked(doc) == FALSE

\* `if not chunks_with_pages: raise ValueError(...)`
NoChunks(doc) == doc = <<>>

\* ingest_pdf lines 37-42 and extract_and_chunk_pdf lines 68-106: the pages
\* are read; a document that cannot be opened or has no text ends as the
\* ValueError of line 45
Extract(t) ==
    /\ pc[t] = "extract"
    /\ \E doc \in Docs :
          IF NoChunks(doc)
          THEN Raise(t, "extraction")
          ELSE /\ call' = [call EXCEPT ![t].doc = doc]
               /\ pc' = [pc EXCEPT ![t] = "chunk"]
               /\ status' = Progress(t, 40)
    /\ resp' = NoResp
    /\ UNCHANGED <<index, origin, meta, vecFile, metaFile, images, ncalls, fileOrigin, uploadFile, statusWritable>>
    /\ UNCHANGED cacheVars

\* extract_and_chunk_pdf lines 108-131, ingest_pdf lines 44-69 and add_batch
\* lines 88-103: the chunks, the metadata lists, the guard and the filter of
\* add_batch; an exception while chunking is caught at line 129 and ends as the
\* ValueError of line 45
Chunk(t) ==
    /\ pc[t] = "chunk"
    /\ LET chunks == ChunksList(call[t].doc)
           mds == MetadataList(call[t].book, call[t].doc)
       IN  \/ /\ call' = [call EXCEPT ![t].chunks = chunks, ![t].mds = mds]
              /\ IF BatchAccepted(chunks, mds) /\ ValidChunks(chunks, mds) # <<>>
                 THEN /\ pc' = [pc EXCEPT ![t] = "embed"]
                      /\ status' = Progress(t, 65)
                 ELSE /\ pc' = [pc EXCEPT ![t] = "images"]
                      /\ status' = Progress(t, 90)
           \/ Raise(t, "chunking")
    /\ resp' = NoResp
    /\ UNCHANGED <<index, origin, meta, vecFile, metaFile, images, ncalls, fileOrigin, uploadFile, statusWritable>>
    /\ UNCHANGED cacheVars

\* model.encode: the embeddings are computed, or the embedder raises
Embed(t) ==
    /\ pc[t] = "embed"
    /\ \/ /\ pc' = [pc EXCEPT ![t] = "index"]
          /\ status' = Progress(t, 85)
          /\ call' = call
       \/ Raise(t, "embedding")
    /\ resp' = NoResp
    /\ UNCHANGED <<index, origin, meta, vecFile, metaFile, images, ncalls, fileOrigin, uploadFile, statusWritable>>
    /\ UNCHANGED cacheVars

\* self.index.add(...): all vectors of the call are appended, or faiss raises
\* and none is
AddToIndex(t) ==
    /\ pc[t] = "index"
    /\ \/ /\ index' = IndexAdd(index, CallEmbeddings(call[t]))
          /\ pc' = [pc EXCEPT ![t] = "meta"]
          /\ UNCHANGED <<call, status>>
       \/ /\ index' = IndexAddRaised(index, CallEmbeddings(call[t]))
          /\ Raise(t, "indexing")
    /\ origin' = origin \o SubSeq(CallOrigin(call[t]), 1, Len(index') - Len(index))
    /\ resp' = NoResp
    /\ UNCHANGED <<meta, vecFile, metaFile, images, ncalls, fileOrigin, uploadFile, statusWritable>>
    /\ UNCHANGED cacheVars

\* one round of the metadata loop: md = meta.copy() raises on a record that is
\* no dict; otherwise the record is appended
StoreMetadata(t) ==
    /\ pc[t] = "meta"
    /\ LET md == CallMetadata(call[t])[call[t].i + 1]
           chunk == CallChunks(call[t])[call[t].i + 1]
       IN  IF IsDict(md)
           THEN /\ meta' = MetaAppend(meta, WithChunkText(md, chunk))
                /\ call' = [call EXCEPT ![t].i = @ + 1]
                /\ pc' = [pc EXCEPT ![t] =
                      IF call[t].i + 1 = Len(CallChunks(call[t])) THEN "save" ELSE "meta"]
                /\ status' = IF call[t].i + 1 = Len(CallChunks(call[t]))
                             THEN Progress(t, 90) ELSE status
           ELSE /\ Raise(t, "metadata")
                /\ meta' = meta
    /\ resp' = NoResp
    /\ UNCHANGED <<index, origin, vecFile, metaFile, images, ncalls, fileOrigin, uploadFile, statusWritable>>
    /\ UNCHANGED cacheVars

\* self._save(), after which add and add_batch return
Save(t) ==
    /\ pc[t] = "save"
    /\ \E outcome \in SaveOutcomes :
          /\ vecFile' = SavedVecFile(outcome, index, vecFile)
          /\ fileOrigin' = SavedVecFile(outcome, origin, fileOrigin)
          /\ metaFile' = SavedMetaFile(outcome, meta, metaFile)
    /\ pc' = [pc EXCEPT ![t] = IF call[t].op = "ingest" THEN "images" ELSE "returned"]
    /\ resp' = NoResp
    /\ UNCHANGED <<index, origin, meta, images, status, call, ncalls, uploadFile, statusWritable>>
    /\ UNCHANGED cacheVars

\* ingest_pdf lines 74-82: _save_page_images writes the previews or raises
SavePageImages(t) ==
    /\ pc[t] = "images"
    /\ \/ /\ images' = images \cup {call[t].book}
          /\ pc' = [pc EXCEPT ![t] = "finish"]
          /\ status' = Progress(t, 95)
          /\ call' = call
       \/ /\ Raise(t, "images")
          /\ images' = images
    /\ resp' = NoResp
    /\ UNCHANGED <<index, origin, meta, vecFile, metaFile, ncalls, fileOrigin, uploadFile, statusWritable>>
    /\ UNCHANGED cacheVars

\* main.py 110-119: the task writes the completed status
Complete(t) ==
    /\ pc[t] = "finish"
    /\ pc' = [pc EXCEPT ![t] = "done"]
    /\ status' = WriteStatus(status, call[t].book, 100, "completed")
    /\ resp' = NoResp
    /\ UNCHANGED <<index, origin, meta, vecFile, metaFile, images, call, ncalls, fileOrigin, uploadFile, statusWritable>>
    /\ UNCHANGED cacheVars

(***************************************************************************)
(* Reads, served by the event loop between any two steps of the threads.   *)
(***************************************************************************)
Queries == {"a", "b", " "}

\* IndexFlatIP.search(q, n): the n best positions by inner product, best first.
\* faiss documents no order among equal scores, so every order (and every
\* choice among equal scores at the cut) is a possible answer.
IndexSearch(idx, qv, n) ==
    { h \in [1..n -> 1..Len(idx)] :
        /\ \A i, j \in 1..n : i < j => h[i] # h[j]
        /\ \A i, j \in 1..n : i < j => Dot(idx[h[i]], qv) >= Dot(idx[h[j]], qv)
        /\ \A p \in 1..Len(idx) :
              (\A i \in 1..n : h[i] # p) => Dot(idx[p], qv) <= Dot(idx[h[n]], qv) }

\* the skip of line 177 off by one: the last record is never returned
HitsWithMetadata_OffByOne(h, mt) == SelectSeq(h, LAMBDA p : p < Len(mt))

\* search lines 175-188: positions without a metadata record are skipped, the
\* others give a copy of their record with the score attached
HitsWithMetadata(h, mt) == SelectSeq(h, LAMBDA p : p <= Len(mt))

SearchResults(h, idx, mt, qv) ==
    [j \in DOMAIN HitsWithMetadata(h, mt) |->
        WithScore(mt[HitsWithMetadata(h, mt)[j]],
                  Dot(idx[HitsWithMetadata(h, mt)[j]], qv))]

SearchResp(q, k, h, idx, mt, qv) ==
    [kind |-> "search", query |-> q, top_k |-> k, ntotal |-> Len(idx),
     nmeta |-> Len(mt), pos |-> HitsWithMetadata(h, mt),
     results |-> SearchResults(h, idx, mt, qv)]

\* search attaching the score to the stored record instead of a copy
MetaAfterScoring_NoCopy(mt, h, idx, qv) ==
    [p \in DOMAIN mt |->
        IF \E j \in DOMAIN h : h[j] = p THEN WithScore(mt[p], Dot(idx[p], qv))
        ELSE mt[p]]

\* the effect of lines 180-182 on self.meta: the score is attached to a copy
\* of the record, the stored records stay as they are
MetaAfterScoring(mt, h, idx, qv) == mt

\* what can go wrong inside the try block of search: the embedder raises
\* (lines 168-169) or the index lookup raises (line 173)
SearchFailures == {"none", "embedder", "index"}

\* the failure a search meets: faiss rejects k <= 0 (n_to_search of line 172
\* is then not positive), whatever else happens
SearchFailure(fail, k) ==
    IF fail = "embedder" THEN "embedder"
    ELSE IF k <= 0 THEN "index"
    ELSE fail

\* search without its except clause
SearchOutcome_NoExcept(fail) == IF fail = "none" THEN "returned" ELSE "raised"

\* the except clause of lines 189-191: a failure inside the try block makes
\* the call return []
SearchOutcome(fail) == "returned"

\* EmbedStore.search: [] on an empty index and on a blank query, before the
\* try block; [] from the except clause when the embedder or the lookup raises
Search(limit) ==
    /\ ncalls < limit
    /\ \E q \in Queries, k \in 0..MaxK, fail \in SearchFailures :
          LET qv == Normalize(Encode(q)) IN
          IF Len(index) = 0 \/ Blank(q)
          THEN /\ fail = "none"
               /\ resp' = [failed |-> "none", outcome |-> "returned"]
                            @@ SearchResp(q, k, <<>>, index, meta, qv)
               /\ meta' = meta
          ELSE IF SearchFailure(fail, k) # "none"
          THEN /\ resp' = [failed |-> SearchFailure(fail, k),
                           outcome |-> SearchOutcome(SearchFailure(fail, k))]
                            @@ SearchResp(q, k, <<>>, index, meta, qv)
               /\ meta' = meta
          ELSE \E h \in IndexSearch(index, qv, Min(k, Len(index))) :
                  /\ resp' = [failed |-> "none", outcome |-> "returned"]
                               @@ SearchResp(q, k, h, index, meta, qv)
                  /\ meta' = MetaAfterScoring(meta, HitsWithMetadata(h, meta), index, qv)
    /\ ncalls' = ncalls + 1
    /\ UNCHANGED <<index, origin, vecFile, metaFile, images, status, pc, call, fileOrigin, uploadFile, statusWritable>>
    /\ UNCHANGED cacheVars

\* the book ids get_stats counts
BookIds(mt) ==
    { mt[i].book_id : i \in { j \in DOMAIN mt : "book_id" \in DOMAIN mt[j] } }

\* EmbedStore.get_stats
GetStats(limit) ==
    /\ ncalls < limit
    /\ resp' = [kind |-> "stats", total_chunks |-> Len(index),
                unique_books |-> Cardinality(BookIds(meta))]
    /\ ncalls' = ncalls + 1
    /\ UNCHANGED <<index, origin, meta, vecFile, metaFile, images, status, pc, call, fileOrigin, uploadFile, statusWritable>>
    /\ UNCHANGED cacheVars

\* get_upload_status for the handle of an upload: the status file when there
\* is one, 404 "Task not found" when there is none
Poll(limit) ==
    /\ ncalls < limit
    /\ \E t \in Threads :
          /\ call[t].op = "ingest"
          /\ resp' = [kind |-> "status", task |-> call[t].book,
                      found |-> status[call[t].book] # NoStatus,
                      record |-> status[call[t].book]]
    /\ ncalls' = ncalls + 1
    /\ UNCHANGED <<index, origin, meta, vecFile, metaFile, images, status, pc, call, fileOrigin, uploadFile, statusWritable>>
    /\ UNCHANGED cacheVars

\* the status directory stops or starts accepting writes (disk full, rights)
StatusDirChanges ==
    /\ statusWritable' = ~statusWritable
    /\ UNCHANGED <<index, origin, meta, vecFile, metaFile, images, status, pc, call, fileOrigin, uploadFile>>
    /\ UNCHANGED <<ncalls, resp>>
    /\ UNCHANGED cacheVars

(***************************************************************************)
(* Process start: EmbedStore() loads the two files.                        *)
(***************************************************************************)
\* a record json.load gives for {}
EmptyMd == [k \in {} |-> TRUE]

\* _load lines 23-26: the persisted index when both files can be read; the
\* fresh index of the except clause (line 43) when one of them cannot
LoadedIndex(readable, vf) == IF readable THEN vf ELSE <<>>

\* _load without the repair of lines 35-40
LoadedMeta_AsPersisted(readable, n, mf) == IF readable THEN mf ELSE <<>>

\* _load lines 29-40 for an index of n vectors: the persisted list, padded
\* with {} up to n records or cut to its first n records; [] from the except
\* clause (line 44)
LoadedMeta(readable, n, mf) ==
    IF ~readable THEN <<>>
    ELSE IF n > Len(mf) THEN mf \o [i \in 1..(n - Len(mf)) |-> EmptyMd]
    ELSE IF n < Len(mf) THEN SubSeq(mf, 1, n)
    ELSE mf

\* the last call of the thread was an add or add_batch that appended entries
\* and returned
LastCallAppended(t) ==
    /\ call[t].op \in {"add", "add_batch"}
    /\ pc[t] = "returned"
    /\ call[t].i > 0

\* the process is started again: the threads of the old process are gone and
\* the module-level EmbedStore() runs _load on the files as they are
Restart(limit) ==
    /\ ncalls < limit
    /\ \E readable \in BOOLEAN :
          /\ index' = LoadedIndex(readable, vecFile)
          /\ origin' = LoadedIndex(readable, fileOrigin)
          /\ meta' = LoadedMeta(readable, Len(vecFile), metaFile)
          /\ resp' = [kind |-> "load", readable |-> readable,
                      allReturned |-> \A t \in Threads : AllReturned(t),
                      appended |-> \E t \in Threads : LastCallAppended(t),
                      index |-> index, meta |-> meta]
    /\ pc' = [t \in Threads |-> "idle"]
    /\ call' = [t \in Threads |-> NoCall]
    /\ ncalls' = ncalls + 1
    /\ UNCHANGED <<vecFile, metaFile, fileOrigin, uploadFile, images, status, statusWritable>>
    /\ UNCHANGED cacheVars

\* the steps of a call in progress
Step(t) ==
    \/ StartTask(t)
    \/ Extract(t)
    \/ Chunk(t)
    \/ Embed(t)
    \/ AddToIndex(t)
    \/ StoreMetadata(t)
    \/ Save(t)
    \/ SavePageImages(t)
    \/ Complete(t)

\* the application: uploads processed by background threads, and reads
Next ==
    \/ \E t \in Threads : CallUpload(t)
    \/ \E t \in Threads : Step(t)
    \/ Search(MaxCalls)
    \/ GetStats(MaxCalls)

Spec == Init /\ [][Next]_vars

\* the store's interface used by one caller: add and add_batch with any
\* arguments, and reads
Caller == "t1"

NextApi ==
    \/ CallAdd(Caller)
    \/ CallAddBatch(Caller)
    \/ Embed(Caller)
    \/ AddToIndex(Caller)
    \/ StoreMetadata(Caller)
    \/ Save(Caller)
    \/ Search(MaxApiCalls)
    \/ GetStats(MaxApiCalls)

SpecApi == Init /\ [][NextApi]_vars

\* the same caller, and restarts of the process between or during its calls
NextRestart ==
    \/ NextApi
    \/ Restart(MaxApiCalls)

SpecRestart == Init /\ [][NextRestart]_vars

\* one client: uploads processed in the background one after the other, polls
\* of their status, and a status directory that may refuse writes
NextStatus ==
    \/ CallUpload(Caller)
    \/ Step(Caller)
    \/ Poll(MaxCalls)
    \/ StatusDirChanges

SpecStatus == Init /\ [][NextStatus]_vars

\* the same, the thread pool running the task whenever it has a step to take
\* (every external call returns or raises)
SpecStatusFair == SpecStatus /\ WF_vars(Step(Caller))

\* the start of the process on any pair of files: the vectors and the
\* records an earlier process left
MaxFileLen == 2
MaxLoads == 2

FileVectors == { Normalize(Encode(c)) : c \in {"a", "b"} }

FileRecords ==
    { WithChunkText(ChunkMetadata(1, 1), "a"), WithChunkText(ChunkMetadata(2, 1), "b"),
      EmptyMd }

SeqsUpTo(S, n) == UNION { [1..l -> S] : l \in 0..n }

InitLoad ==
    /\ index = <<>>
    /\ origin = <<>>
    /\ meta = <<>>
    /\ vecFile \in SeqsUpTo(FileVectors, MaxFileLen)
    /\ metaFile \in SeqsUpTo(FileRecords, MaxFileLen)
    /\ fileOrigin = [i \in DOMAIN vecFile |->
                        [book |-> 0, chunk |-> "", md |-> EmptyMd]]
    /\ uploadFile = <<>>
    /\ images = {}
    /\ status = [c \in 1..(MaxCalls + MaxApiCalls) |-> NoStatus]
    /\ pc = [t \in Threads |-> "idle"]
    /\ call = [t \in Threads |-> NoCall]
    /\ ncalls = 0
    /\ resp = NoResp
    /\ redis_client = FALSE
    /\ redisDb = <<>>
    /\ memory_cache = <<>>
    /\ lastSet = <<>>
    /\ statusWritable = TRUE

NextLoad == Restart(MaxLoads)

SpecLoad == InitLoad /\ [][NextLoad]_vars

(***************************************************************************)
(* The cache: Redis when a client was set up, a dict otherwise and on      *)
(* every Redis failure.  Its operations run on the event loop, one at a    *)
(* time.                                                                   *)
(***************************************************************************)
MaxCacheOps == 3

\* prefixes, spelled as the pieces a ':' separates: "query", "query:v2" and
\* "summary"
Prefixes == { <<"query">>, <<"query", ":", "v2">>, <<"summary">> }

\* clear(prefix=None)
NoPrefix == <<>>

CacheQueries == {"x", "y"}

CacheValues == {"v1", "v2"}

\* what get returns for a miss
None == "None"

\* hashlib.md5(query.encode()).hexdigest(), by its leading digits
Md5(query) ==
    IF query = "x" THEN "9dd4e461"
    ELSE IF query = "y" THEN "41529076"
    ELSE "md5(" \o query \o ")"

\* _make_key: f"bookvision:{prefix}:{query_hash}"
MakeKey(prefix, query) == <<"bookvision", ":">> \o prefix \o <<":", Md5(query)>>

\* f"bookvision:{prefix}:", the start of the keys clear(prefix) removes and,
\* followed by '*', its Redis pattern
ClearPattern(prefix) == <<"bookvision", ":">> \o prefix \o <<":">>

\* str.startswith, and the match of a pattern that ends in its only '*'
StartsWith(key, start) ==
    /\ Len(start) <= Len(key)
    /\ \A i \in 1..Len(start) : key[i] = start[i]

\* json.dumps and json.loads
JsonDumps(value) == <<"json", value>>

JsonLoads(text) == text[2]

\* the ttl arguments of set: None and a number of seconds
CacheTtls == {0, 60}

CACHE_TTL == 3600

\* ttl = ttl or CACHE_TTL
EffectiveTtl(ttl) == IF ttl = 0 THEN CACHE_TTL ELSE ttl

\* a dict without one of its keys
Without(f, keys) == [k \in DOMAIN f \ keys |-> f[k]]

\* f[key] = value on a dict
With(f, key, value) == [k \in DOMAIN f \cup {key} |-> IF k = key THEN value ELSE f[k]]

\* memory_cache as the list of its (key, value) items in insertion order
MemoryKeys(mc) == { mc[i][1] : i \in DOMAIN mc }

MemoryGet(mc, key) ==
    IF key \in MemoryKeys(mc)
    THEN mc[CHOOSE i \in DOMAIN mc : mc[i][1] = key][2]
    ELSE None

MemoryCacheLimit == 1000
EvictedKeys == 100

\* a dict that moves an overwritten key to the end
MemorySet_MoveToEnd(mc, key, value) ==
    LET put == Append(SelectSeq(mc, LAMBDA item : item[1] # key), <<key, value>>)
    IN  IF Len(put) > MemoryCacheLimit
        THEN SubSeq(put, EvictedKeys + 1, Len(put))
        ELSE put

\* self.memory_cache[key] = value: a key that is there keeps its place; then
\* the first 100 keys are deleted when more than 1000 are held
MemorySet(mc, key, value) ==
    LET put == IF key \in MemoryKeys(mc)
               THEN [i \in DOMAIN mc |-> IF mc[i][1] = key THEN <<key, value>> ELSE mc[i]]
               ELSE Append(mc, <<key, value>>)
    IN  IF Len(put) > MemoryCacheLimit
        THEN SubSeq(put, EvictedKeys + 1, Len(put))
        ELSE put

\* the keys of a namespace removed from the dict: startswith a prefix that
\* ends at the ':'
MemoryClear(mc, prefix) ==
    IF prefix = NoPrefix THEN <<>>
    ELSE SelectSeq(mc, LAMBDA item : ~StartsWith(item[1], ClearPattern(prefix)))

\* redis keys(pattern) and delete(*keys), or flushdb()
RedisClear(db, prefix) ==
    IF prefix = NoPrefix THEN <<>>
    ELSE Without(db, { k \in DOMAIN db : StartsWith(k, ClearPattern(prefix)) })

\* an operation whose Redis call raised and whose except clause is missing
CacheErrorHandled_SetUnguarded(op) == op # "set"

\* the except clauses of lines 47, 65 and 88: a Redis failure is printed and
\* the operation goes on with the dict
CacheErrorHandled(op) == TRUE

CacheResp(op, prefix, query, failed, value) ==
    [kind |-> "cache", op |-> op, prefix |-> prefix, query |-> query,
     key |-> MakeKey(prefix, query), failed |-> failed,
     outcome |-> IF failed /\ ~CacheErrorHandled(op) THEN "raised" ELSE "returned",
     value |-> value]

\* the history of the keys after a set: where the value went, the value and
\* the namespace of the key; the set ends the effect of an earlier clear on
\* the keys of its namespace
Recorded(ls, key, tier, prefix, value) ==
    With([k \in DOMAIN ls |->
             IF ls[k].prefix = prefix THEN [ls[k] EXCEPT !.cleared = FALSE] ELSE ls[k]],
         key,
         [tier |-> tier, elapsed |-> FALSE, value |-> value, prefix |-> prefix,
          cleared |-> FALSE])

\* the value the last operation set, when it was a set of this key
JustSet(key) ==
    IF resp.kind = "cache" /\ resp.op = "set" /\ resp.key = key
       /\ resp.outcome = "returned"
    THEN resp.value ELSE None

\* Cache.get: the Redis entry when Redis answers and has one, else the dict
CacheGet ==
    /\ ncalls < MaxCacheOps
    /\ \E prefix \in Prefixes, query \in CacheQueries, up \in BOOLEAN :
          LET key == MakeKey(prefix, query)
              failed == redis_client /\ ~up
              value == IF redis_client /\ up /\ key \in DOMAIN redisDb
                       THEN JsonLoads(redisDb[key].text)
                       ELSE MemoryGet(memory_cache, key)
          IN  resp' = [after_set |-> JustSet(key)]
                         @@ CacheResp("get", prefix, query, failed, value)
    /\ ncalls' = ncalls + 1
    /\ UNCHANGED <<redis_client, redisDb, memory_cache, lastSet>>
    /\ UNCHANGED storeVars

\* Cache.set: setex on Redis and nothing else when Redis answers, else the dict
CacheSet ==
    /\ ncalls < MaxCacheOps
    /\ \E prefix \in Prefixes, query \in CacheQueries, value \in CacheValues,
          ttl \in CacheTtls, up \in BOOLEAN :
          LET key == MakeKey(prefix, query)
              failed == redis_client /\ ~up
          IN  /\ resp' = CacheResp("set", prefix, query, failed, value)
              /\ IF failed /\ ~CacheErrorHandled("set")
                 THEN UNCHANGED <<redisDb, memory_cache, lastSet>>
                 ELSE IF redis_client /\ up
                 THEN /\ redisDb' = With(redisDb, key,
                            [text |-> JsonDumps(value), ttl |-> EffectiveTtl(ttl)])
                      /\ memory_cache' = memory_cache
                      /\ lastSet' = Recorded(lastSet, key, "redis", prefix, value)
                 ELSE /\ memory_cache' = MemorySet(memory_cache, key, value)
                      /\ redisDb' = redisDb
                      /\ lastSet' = Recorded(lastSet, key, "memory", prefix, value)
    /\ ncalls' = ncalls + 1
    /\ UNCHANGED redis_client
    /\ UNCHANGED storeVars

\* Cache.clear: the keys of the prefix (or all keys) on Redis when it
\* answers, and in the dict in every case
CacheClear ==
    /\ ncalls < MaxCacheOps
    /\ \E prefix \in Prefixes \cup {NoPrefix}, up \in BOOLEAN :
          LET failed == redis_client /\ ~up
          IN  /\ resp' = [CacheResp("clear", prefix, "x", failed, None)
                             EXCEPT !.query = "", !.key = <<>>]
              /\ IF failed /\ ~CacheErrorHandled("clear")
                 THEN UNCHANGED <<redisDb, memory_cache>>
                 ELSE /\ redisDb' = IF redis_client /\ up
                                    THEN RedisClear(redisDb, prefix) ELSE redisDb
                      /\ memory_cache' = MemoryClear(memory_cache, prefix)
              /\ lastSet' = [k \in DOMAIN lastSet |->
                                IF prefix = NoPrefix \/ lastSet[k].prefix = prefix
                                THEN [lastSet[k] EXCEPT !.cleared = TRUE]
                                ELSE lastSet[k]]
    /\ ncalls' = ncalls + 1
    /\ UNCHANGED redis_client
    /\ UNCHANGED storeVars

\* the ttl of a Redis entry elapses: Redis drops the entry
Expire ==
    /\ \E key \in DOMAIN redisDb :
          /\ redisDb' = Without(redisDb, {key})
          /\ lastSet' = IF key \in DOMAIN lastSet /\ lastSet[key].tier = "redis"
                        THEN [lastSet EXCEPT ![key].elapsed = TRUE]
                        ELSE lastSet
    /\ resp' = NoResp
    /\ UNCHANGED <<redis_client, memory_cache, ncalls>>
    /\ UNCHANGED storeVars

\* Cache(): redis_client is set when REDIS_URL is configured and the server
\* answers the ping
InitCache ==
    /\ index = <<>>
    /\ origin = <<>>
    /\ meta = <<>>
    /\ vecFile = <<>>
    /\ metaFile = <<>>
    /\ fileOrigin = <<>>
    /\ uploadFile = <<>>
    /\ images = {}
    /\ status = [c \in 1..(MaxCalls + MaxApiCalls) |-> NoStatus]
    /\ pc = [t \in Threads |-> "idle"]
    /\ call = [t \in Threads |-> NoCall]
    /\ ncalls = 0
    /\ resp = NoResp
    /\ redis_client \in BOOLEAN
    /\ redisDb = <<>>
    /\ memory_cache = <<>>
    /\ lastSet = <<>>
    /\ statusWritable = TRUE

NextCache ==
    \/ CacheGet
    \/ CacheSet
    \/ CacheClear
    \/ Expire

SpecCache == InitCache /\ [][NextCache]_vars

\* the dict one entry below its limit, as 999 sets of distinct queries during
\* an outage or without Redis leave it; the oldest entry is of query "x"
FillCount == MemoryCacheLimit - 1

FilledMemory ==
    [i \in 1..FillCount |->
        <<MakeKey(<<"query">>, IF i = 1 THEN "x" ELSE ToString(i)), "v1">>]

InitEvict ==
    /\ index = <<>>
    /\ origin = <<>>
    /\ meta = <<>>
    /\ vecFile = <<>>
    /\ metaFile = <<>>
    /\ fileOrigin = <<>>
    /\ uploadFile = <<>>
    /\ images = {}
    /\ status = [c \in 1..(MaxCalls + MaxApiCalls) |-> NoStatus]
    /\ pc = [t \in Threads |-> "idle"]
    /\ call = [t \in Threads |-> NoCall]
    /\ ncalls = 0
    /\ resp = NoResp
    /\ redis_client = FALSE
    /\ redisDb = <<>>
    /\ memory_cache = FilledMemory
    /\ lastSet = <<>>
    /\ statusWritable = TRUE

NextEvict ==
    \/ CacheSet
    \/ CacheClear

SpecEvict == InitEvict /\ [][NextEvict]_vars

(***************************************************************************)
(* Properties.                                                             *)
(***************************************************************************)
Quiescent == \A t \in Threads : pc[t] \in Resting

IsPrefix(s, t) == Len(s) <= Len(t) /\ \A i \in 1..Len(s) : s[i] = t[i]

\* the store holds neither a vector nor a metadata record of the book
NoEntryIn(org, mt, book) ==
    /\ \A i \in DOMAIN org : org[i].book # book
    /\ \A i \in DOMAIN mt : "book_id" \in DOMAIN mt[i] => mt[i].book_id # book

NoEntryOf(book) == NoEntryIn(origin, meta, book)

\* the metadata records of a book, in the order of the metadata list
RunRecords(book) ==
    SelectSeq(meta, LAMBDA m : "book_id" \in DOMAIN m /\ m.book_id = book)

\* the positions of the index that hold vectors of a book, ascending
RunPositions(book) ==
    SelectSeq([i \in 1..Len(origin) |-> i], LAMBDA i : origin[i].book = book)

\* the non-blank chunks of the extractor's output, in its order
NonBlankChunks(doc) == SelectSeq(doc, LAMBDA cp : ~Blank(cp[1]))

\* C1: after any sequence of completed add and add_batch calls, returned or
\* raised, the index holds as many vectors as the metadata list holds records.
C1_SizesAgreeAfterCalls == Quiescent => Len(index) = Len(meta)

\* C2: after two concurrent ingestion runs have both finished, the metadata
\* record at every position is the one supplied with the vector at that position.
C2_ConcurrentAppendsStayPaired ==
    (\A t \in Threads : pc[t] = "done" /\ call[t].op = "ingest")
        => /\ Len(index) = Len(meta)
           /\ \A i \in DOMAIN meta :
                 meta[i] = WithChunkText(origin[i].md, origin[i].chunk)

\* C3: a search that runs while an add or add_batch is in progress observes as
\* many vectors as metadata records.
C3_ReadersSeeEqualCounts == resp.kind = "search" => resp.ntotal = resp.nmeta

\* C4: every step of an add_batch call whose two lists differ in length leaves
\* the index, the metadata list and both files as they were.
C4_MismatchedBatchChangesNothing ==
    [][ \A t \in Threads :
          ( /\ call'[t].op = "add_batch"
            /\ Len(call'[t].chunks) # Len(call'[t].mds)
            /\ (pc'[t] # pc[t] \/ call'[t] # call[t]) )
          => /\ index' = index
             /\ meta' = meta
             /\ vecFile' = vecFile
             /\ metaFile' = metaFile ]_vars

C4_Witness ==
    /\ pc[Caller] = "returned"
    /\ call[Caller].op = "add_batch"
    /\ Len(call[Caller].chunks) # Len(call[Caller].mds)
    /\ Len(index) > 0
    /\ metaFile # meta

\* C5: an add_batch call whose two lists differ in length ends by raising to
\* its caller, never by returning normally.
C5_MismatchedBatchRaises ==
    \A t \in Threads :
        ( /\ call[t].op = "add_batch"
          /\ pc[t] \in Resting
          /\ Len(call[t].chunks) # Len(call[t].mds) )
        => pc[t] = "raised"

\* C6: a run that failed at embedding or at index insertion is in the Error
\* state, the store holds no vector and no metadata record of its document,
\* and no step that leads to or passes through such a state removes or changes
\* an entry that was in the store.
C6_FailedRunCommitsNothing ==
    [][ \A t \in Threads :
          ( /\ call'[t].op = "ingest"
            /\ call'[t].failedAt \in {"embedding", "indexing"} )
          => /\ pc'[t] = "error"
             /\ NoEntryIn(origin', meta', call'[t].book)
             /\ IsPrefix(index, index')
             /\ IsPrefix(meta, meta') ]_vars

C6_Witness ==
    \E t \in Threads :
        /\ pc[t] = "error"
        /\ call[t].failedAt \in {"embedding", "indexing"}
        /\ Len(meta) > 0
        /\ Len(index) = Len(meta)

\* C7: a run that ended in failure, at whatever step, has left no index entry
\* whose book_id is its document id.
C7_FailedRunLeavesNothing ==
    \A t \in Threads :
        (call[t].op = "ingest" /\ pc[t] = "error") => NoEntryOf(call[t].book)

\* C8: the metadata records and the vectors a run has appended are those of its
\* non-blank chunks, in the extractor's order, each record with the page and
\* the text of its own chunk; while the metadata loop runs they are a prefix.
C8_RunKeepsChunkOrder ==
    \A t \in Threads :
        (call[t].op = "ingest" /\ pc[t] \in {"meta", "save", "images", "finish", "done"})
        => LET nb == NonBlankChunks(call[t].doc)
               recs == RunRecords(call[t].book)
               poss == RunPositions(call[t].book)
           IN  /\ Len(recs) = (IF pc[t] = "meta" THEN call[t].i ELSE Len(nb))
               /\ \A i \in DOMAIN recs :
                     recs[i] = [book_id |-> call[t].book, page |-> nb[i][2],
                                chunk_text |-> nb[i][1]]
               /\ Len(poss) = Len(nb)
               /\ \A i \in DOMAIN poss :
                     /\ origin[poss[i]].chunk = nb[i][1]
                     /\ index[poss[i]] = Normalize(Encode(nb[i][1]))

C8_Witness ==
    \E t \in Threads :
        /\ call[t].op = "ingest"
        /\ pc[t] = "done"
        /\ Len(call[t].doc) >= 2
        /\ Len(meta) > Len(call[t].doc)

\* C9: no step of add, add_batch, search or get_stats lowers the entry count
\* or changes the vector or the metadata record at a position that exists.
C9_AppendOnly == [][IsPrefix(index, index') /\ IsPrefix(meta, meta')]_vars

C9_Witness ==
    /\ resp.kind = "search"
    /\ Len(resp.results) >= 2
    /\ Len(index) >= 2

\* C10: a search returns its entries by descending inner product, and entries
\* of equal inner product by ascending position of insertion.
C10_RankedTiesByInsertion ==
    resp.kind = "search"
        => \A i, j \in DOMAIN resp.results :
              i < j => \/ resp.results[i].score > resp.results[j].score
                       \/ /\ resp.results[i].score = resp.results[j].score
                          /\ resp.pos[i] < resp.pos[j]

\* C11: a search with a non-blank query whose embedding and lookup succeed
\* returns exactly min(k, size) entries, and when k is at least the number of
\* stored entries every stored position is returned exactly once.
C11_SearchReturnsMinOfKAndSize ==
    (resp.kind = "search" /\ ~Blank(resp.query) /\ resp.failed = "none")
        => /\ Len(resp.results) = Min(resp.top_k, resp.ntotal)
           /\ resp.top_k >= resp.ntotal
                 => \A p \in 1..resp.ntotal :
                       Cardinality({ j \in DOMAIN resp.pos : resp.pos[j] = p }) = 1

\* C12: search never raises: it returns the empty list on an empty index and
\* on every failure of the embedder or of the index lookup, and a list of at
\* most k entries otherwise.
C12_SearchNeverRaises ==
    resp.kind = "search"
        => /\ resp.outcome = "returned"
           /\ resp.ntotal = 0 => resp.results = <<>>
           /\ resp.failed # "none" => resp.results = <<>>
           /\ Len(resp.results) <= resp.top_k

\* a search of a non-empty index met a failure of the embedder, and another
\* one a failure of the lookup
C12_Witness ==
    /\ resp.kind = "search"
    /\ resp.ntotal > 0
    /\ resp.failed = "embedder"
    /\ resp.top_k > 0

\* every vector of the store came with a dict as its metadata
StoreInContract == \A i \in DOMAIN origin : IsDict(origin[i].md)

\* the caller's last call was an add that appended an entry, and the search
\* that followed it (k >= 1, embedding and lookup succeeding) has a query that
\* embeds to the vector of that entry
SearchedAfterAdd ==
    /\ resp.kind = "search"
    /\ resp.failed = "none"
    /\ resp.top_k >= 1
    /\ ~Blank(resp.query)
    /\ call[Caller].op = "add"
    /\ pc[Caller] = "returned"
    /\ ~Blank(call[Caller].chunks[1])
    /\ StoreInContract
    /\ <<Normalize(Encode(resp.query))>> = AddEmbedding(call[Caller].chunks[1])

\* an earlier entry of the store has the vector of the last one
LastVectorStoredBefore ==
    \E p \in 1..(Len(index) - 1) : index[p] = index[Len(index)]

C14_LoadRepairsSizes ==
    resp.kind = "load"
        => /\ Len(meta) = Len(index)
           /\ resp.readable
                 => /\ index = vecFile
                    /\ Len(meta) = Len(vecFile)
                    /\ \A i \in DOMAIN meta :
                          meta[i] = IF i <= Len(metaFile) THEN metaFile[i]
                                    ELSE EmptyMd

\* a load of more vectors than records, and of some records
C14_Witness ==
    /\ resp.kind = "load"
    /\ resp.readable
    /\ Len(metaFile) >= 1
    /\ Len(vecFile) > Len(metaFile)
    /\ Len(meta) = Len(vecFile)

\* C15: after add and add_batch calls that all returned normally, a restart
\* that reads the two files gives the vectors and the records the store held.
C15_RestartGivesSameStore ==
    (resp.kind = "load" /\ resp.readable /\ resp.allReturned /\ resp.appended)
        => (index = resp.index /\ meta = resp.meta)

\* the positions of the non-blank chunks of an argument list, in order
NonBlankPositions(chunks) ==
    SelectSeq([j \in DOMAIN chunks |-> j], LAMBDA j : ~Blank(chunks[j]))

\* C16: a call embeds only if it was given a non-blank chunk; the vectors it
\* adds are those of its non-blank chunks, in order; and every record it
\* appends carries a non-blank chunk_text together with the page and book of
\* the metadata record supplied at the position of that chunk.
C16_BlankChunksDropped ==
    [][LET c == call[Caller]
           nb == NonBlankPositions(c.chunks)
       IN  /\ pc'[Caller] = "embed" => NonBlankPositions(call'[Caller].chunks) # <<>>
           /\ (pc[Caller] = "index" /\ index' # index)
                 => /\ Len(index') = Len(index) + Len(nb)
                    /\ \A j \in DOMAIN nb :
                          index'[Len(index) + j] = Normalize(Encode(c.chunks[nb[j]]))
           /\ (pc[Caller] = "meta" /\ meta' # meta)
                 => /\ Len(meta') = Len(meta) + 1
                    /\ c.i + 1 \in DOMAIN nb
                    /\ ~Blank(meta'[Len(meta')].chunk_text)
                    /\ meta'[Len(meta')] =
                          WithChunkText(c.mds[nb[c.i + 1]], c.chunks[nb[c.i + 1]])
      ]_vars

\* a batch whose first chunk was blank has returned, and the record of its
\* second chunk is stored with the second page
C16_Witness ==
    /\ pc[Caller] = "returned"
    /\ call[Caller].op = "add_batch"
    /\ Len(call[Caller].chunks) = 2
    /\ Blank(call[Caller].chunks[1])
    /\ Len(meta) >= 1
    /\ meta[Len(meta)].chunk_text = "b"
    /\ meta[Len(meta)].page = 2

\* C17: a get that immediately follows a set of the same namespace and query
\* returns the value set, whether or not Redis is configured and whether or
\* not it answers at each of the two calls.
C17_GetAfterSetReturnsValue ==
    (resp.kind = "cache" /\ resp.op = "get" /\ resp.after_set # None)
        => resp.value = resp.after_set

\* C18: with Redis in use, once the ttl of the last set of a key has elapsed
\* a get of the key that Redis answers returns absent, whatever cache
\* operations and outages came before.
C18_ElapsedEntryIsAbsent ==
    (/\ resp.kind = "cache" /\ resp.op = "get" /\ ~resp.failed
     /\ redis_client
     /\ resp.key \in DOMAIN lastSet
     /\ lastSet[resp.key].tier = "redis"
     /\ lastSet[resp.key].elapsed)
        => resp.value = None

\* the keys of the namespaces other than the given one
KeysOutside(prefix) ==
    { MakeKey(p, q) : p \in Prefixes \ {prefix}, q \in CacheQueries }

\* C19: clear of a namespace leaves the entries of every other namespace as
\* they are, on Redis and in the dict.
C19_ClearTouchesOnlyItsNamespace ==
    [][(resp'.kind = "cache" /\ resp'.op = "clear" /\ resp'.prefix # NoPrefix)
          => \A k \in KeysOutside(resp'.prefix) :
                /\ k \in DOMAIN redisDb => (k \in DOMAIN redisDb' /\ redisDb'[k] = redisDb[k])
                /\ MemoryGet(memory_cache', k) = MemoryGet(memory_cache, k)
      ]_vars

\* C20: get, set and clear return normally when Redis fails; a get that met
\* the failure gives what the dict holds and a set that met it leaves its
\* value in the dict.
C20_BackendFailuresStayInside ==
    resp.kind = "cache"
        => /\ resp.outcome = "returned"
           /\ (resp.failed /\ resp.op \in {"get", "set"})
                 => resp.value = MemoryGet(memory_cache, resp.key)

\* a get and a set that met a Redis failure, the get finding a value
C20_Witness ==
    /\ resp.kind = "cache"
    /\ resp.failed
    /\ resp.op = "get"
    /\ resp.value # None

\* the keys of the dict, in its order
KeyOrder(mc) == [i \in DOMAIN mc |-> mc[i][1]]

\* C21: after every set the dict holds at most 1000 entries and the entry
\* just set; a set of a key that is there leaves the order of the keys as it
\* is; a set that makes the count exceed 1000 removes the 100 keys at the
\* front of the insertion order, and nothing else.
C21_FallbackBoundedFifo ==
    [][(resp'.kind = "cache" /\ resp'.op = "set" /\ memory_cache' # memory_cache)
          => /\ Len(memory_cache') <= MemoryCacheLimit
             /\ MemoryGet(memory_cache', resp'.key) = resp'.value
             /\ IF resp'.key \in MemoryKeys(memory_cache)
                THEN KeyOrder(memory_cache') = KeyOrder(memory_cache)
                ELSE IF Len(memory_cache) + 1 > MemoryCacheLimit
                THEN /\ Len(memory_cache') = Len(memory_cache) + 1 - EvictedKeys
                     /\ KeyOrder(memory_cache') =
                           Append(SubSeq(KeyOrder(memory_cache), EvictedKeys + 1,
                                         Len(memory_cache)), resp'.key)
                     /\ \A i \in 1..(Len(memory_cache) - EvictedKeys) :
                           memory_cache'[i] = memory_cache[i + EvictedKeys]
                ELSE memory_cache' = Append(memory_cache, <<resp'.key, resp'.value>>)
      ]_vars

\* a set has just pushed the dict over its limit: 901 entries are left, the
\* last one being the entry set, and the overwritten first key is gone
C21_Witness ==
    /\ resp.kind = "cache"
    /\ resp.op = "set"
    /\ Len(memory_cache) = MemoryCacheLimit + 1 - EvictedKeys
    /\ memory_cache[Len(memory_cache)] = <<resp.key, resp.value>>
    /\ MakeKey(<<"query">>, "x") \notin MemoryKeys(memory_cache)

(***************************************************************************)
(* POST /query on a store that holds two books, with the cache in front.   *)
(***************************************************************************)
MaxQueries == 2

\* book_id left out of the request
NoBook == 0

\* the chunks of the two ingested books: book 1 has two chunks of its page 1,
\* book 2 one chunk of its page 2
StoredChunks ==
    << [book |-> 1, chunk |-> "a", page |-> 1],
       [book |-> 1, chunk |-> "b", page |-> 1],
       [book |-> 2, chunk |-> "c", page |-> 2] >>

\* the book_id values of the requests: none, a book of the store, a book the
\* store has no entry of
QueryBooks == {NoBook, 1, 3}

\* the questions of the requests, as they are after question.strip()
Questions == {"a", "b", "3:a", " "}

\* what generate_answer returns: a text, it never raises
Answers == {"answer"}

\* cache_key = question, or f"{book_id}:{question}" when a book_id is given
CacheKey(book, question) ==
    IF book = NoBook THEN question ELSE ToString(book) \o ":" \o question

\* search_k of lines 245-248
SearchK(top_k, book, ntotal) ==
    IF book = NoBook THEN top_k * 2 ELSE Min(top_k * 10, ntotal)

\* the k of the broader search of line 275
BroaderK(ntotal) == Min(50, ntotal)

\* the lists embed_store.search(q, top_k = k) can return on the store
StoreSearch(q, k, idx, mt) ==
    IF Len(idx) = 0 \/ Blank(q) THEN {<<>>}
    ELSE { IF SearchFailure(fail, k) # "none" THEN <<>>
           ELSE SearchResults(h, idx, mt, Normalize(Encode(q))) :
             fail \in SearchFailures,
             h \in IndexSearch(idx, Normalize(Encode(q)), IF k <= 0 THEN 1 ELSE Min(k, Len(idx))) }

\* [r for r in results if r and r.get("book_id") == book_id]
OfBook(results, book) ==
    SelectSeq(results, LAMBDA r : "book_id" \in DOMAIN r /\ r.book_id = book)

\* the broader search of lines 273-276, made when the book is in the index
\* and no result of the first search is of the book
BroaderSearch(book, first, q, idx, mt) ==
    IF book # NoBook /\ OfBook(first, book) = <<>> /\ book \in BookIds(mt)
    THEN StoreSearch(q, BroaderK(Len(idx)), idx, mt)
    ELSE {<<>>}

\* the key of the duplicate check: (book_id, page), page 1 when there is none
PageKey(r) ==
    << IF "book_id" \in DOMAIN r THEN r.book_id ELSE NoBook,
       IF "page" \in DOMAIN r THEN r.page ELSE 1 >>

\* lines 288-314: the first result of every (book_id, page), as a source
FinalSource(r) ==
    [book_id |-> PageKey(r)[1], page |-> PageKey(r)[2], score |-> r.score,
     chunk_text |-> IF "chunk_text" \in DOMAIN r THEN r.chunk_text ELSE ""]

FirstOfPage(results) ==
    SelectSeq([i \in DOMAIN results |-> i],
              LAMBDA i : \A j \in 1..(i - 1) : PageKey(results[j]) # PageKey(results[i]))

\* final_sources[:top_k]
FinalSources(results, top_k) ==
    LET all == [i \in DOMAIN FirstOfPage(results) |->
                   FinalSource(results[FirstOfPage(results)[i]])]
    IN  SubSeq(all, 1, Min(IF top_k < 0 THEN 0 ELSE top_k, Len(all)))

\* the response dict, and the JSONResponse of an error
Response(answer, sources) ==
    [code |-> 200, answer |-> answer, sources |-> sources, cached |-> FALSE]

ErrorResponse(code) ==
    [code |-> code, answer |-> "", sources |-> <<>>, cached |-> FALSE]

\* lines 234-348 for a request that was not served from the cache: first the
\* results of the search and of the broader search, then the response
Results(book, first, broader, mt) ==
    IF book = NoBook THEN first
    ELSE IF OfBook(first, book) # <<>> THEN OfBook(first, book)
    ELSE OfBook(broader, book)

Computed(book, top_k, first, broader, answer, idx, mt) ==
    IF Len(idx) = 0 THEN Response("No documents indexed yet", <<>>)
    ELSE IF book # NoBook /\ OfBook(first, book) = <<>> /\ book \notin BookIds(mt)
    THEN Response("No matching content found for this book", <<>>)
    ELSE IF Results(book, first, broader, mt) = <<>>
    THEN Response("No matching content found", <<>>)
    ELSE Response(answer, FinalSources(Results(book, first, broader, mt), top_k))

\* whether the request reaches cache.set: it returned through line 350
IsCached(book, first, broader, idx, mt) ==
    /\ Len(idx) > 0
    /\ Results(book, first, broader, mt) # <<>>

QueryResp(question, top_k, use_cache, book, hit, response) ==
    [kind |-> "query", question |-> question, top_k |-> top_k,
     use_cache |-> use_cache, book |-> book, hit |-> hit] @@ response

\* the query handler; up says whether Redis answers during the request
Query(limit) ==
    /\ ncalls < limit
    /\ \E question \in Questions, top_k \in 1..MaxK, use_cache \in BOOLEAN,
          book \in QueryBooks, up \in { b \in BOOLEAN : redis_client \/ ~b } :
          LET key == MakeKey(<<"query">>, CacheKey(book, question))
              inRedis == redis_client /\ up /\ key \in DOMAIN redisDb
              hit == use_cache /\ (inRedis \/ key \in MemoryKeys(memory_cache))
          IN  IF Blank(question)
              THEN /\ resp' = QueryResp(question, top_k, use_cache, book, FALSE, ErrorResponse(400))
                   /\ UNCHANGED <<redisDb, memory_cache, lastSet>>
              ELSE IF hit
              THEN /\ resp' = QueryResp(question, top_k, use_cache, book, TRUE,
                                  IF inRedis THEN JsonLoads(redisDb[key].text)
                                  ELSE MemoryGet(memory_cache, key))
                   /\ UNCHANGED <<redisDb, memory_cache, lastSet>>
              ELSE \E first \in StoreSearch(question, SearchK(top_k, book, Len(index)), index, meta),
                      answer \in Answers :
                      \E broader \in BroaderSearch(book, first, question, index, meta) :
                      LET response == Computed(book, top_k, first, broader, answer, index, meta)
                      IN  /\ resp' = QueryResp(question, top_k, use_cache, book, FALSE, response)
                          /\ IF use_cache /\ IsCached(book, first, broader, index, meta)
                             THEN IF redis_client /\ up
                                  THEN /\ redisDb' = With(redisDb, key,
                                             [text |-> JsonDumps(response), ttl |-> EffectiveTtl(3600)])
                                       /\ memory_cache' = memory_cache
                                       /\ lastSet' = Recorded(lastSet, key, "redis", <<"query">>, response)
                                  ELSE /\ memory_cache' = MemorySet(memory_cache, key, response)
                                       /\ redisDb' = redisDb
                                       /\ lastSet' = Recorded(lastSet, key, "memory", <<"query">>, response)
                             ELSE UNCHANGED <<redisDb, memory_cache, lastSet>>
    /\ ncalls' = ncalls + 1
    /\ UNCHANGED redis_client
    /\ UNCHANGED storeVars

\* the store after the two books were ingested and saved, the cache empty and
\* without Redis (REDIS_URL is not set by default)
InitQuery ==
    /\ index = [i \in DOMAIN StoredChunks |-> Normalize(Encode(StoredChunks[i].chunk))]
    /\ origin = [i \in DOMAIN StoredChunks |->
                    [book |-> StoredChunks[i].book, chunk |-> StoredChunks[i].chunk,
                     md |-> ChunkMetadata(StoredChunks[i].book, StoredChunks[i].page)]]
    /\ meta = [i \in DOMAIN StoredChunks |->
                  WithChunkText(ChunkMetadata(StoredChunks[i].book, StoredChunks[i].page),
                                StoredChunks[i].chunk)]
    /\ vecFile = index
    /\ metaFile = meta
    /\ fileOrigin = origin
    /\ uploadFile = <<>>
    /\ images = BookIds(meta)
    /\ status = [c \in 1..(MaxCalls + MaxApiCalls) |-> NoStatus]
    /\ pc = [t \in Threads |-> "idle"]
    /\ call = [t \in Threads |-> NoCall]
    /\ ncalls = 0
    /\ resp = NoResp
    /\ redis_client = FALSE
    /\ redisDb = <<>>
    /\ memory_cache = <<>>
    /\ lastSet = <<>>
    /\ statusWritable = TRUE

NextQuery == Query(MaxQueries)

SpecQuery == InitQuery /\ [][NextQuery]_vars

(***************************************************************************)
(* The query of a book in a store where another book has many entries.     *)
(***************************************************************************)
MaxOthers == 51

\* a store after two ingests: n chunks "a" of book 2, one per page, then one
\* chunk of book 1
BroadStore(n, chunk) ==
    [i \in 1..(n + 1) |->
        IF i <= n THEN [book |-> 2, chunk |-> "a", page |-> i]
        ELSE [book |-> 1, chunk |-> chunk, page |-> 1]]

\* one of the lists embed_store.search(q, top_k = k) can return when nothing
\* fails: the k best positions by inner product, equal scores in the order of
\* the positions (asc) or in the opposite order
RankedSearch(q, k, idx, mt, asc) ==
    LET qv == Normalize(Encode(q))
        positions == SelectSeq([i \in DOMAIN idx |-> i], LAMBDA p : TRUE)
        RECURSIVE ranked(_)
        ranked(scores) ==
            IF scores = {} THEN <<>>
            ELSE LET best == CHOOSE x \in scores : \A y \in scores : y <= x
                     tied == SelectSeq(positions, LAMBDA p : Dot(idx[p], qv) = best)
                 IN  (IF asc THEN tied
                      ELSE [i \in DOMAIN tied |-> tied[Len(tied) + 1 - i]])
                         \o ranked(scores \ {best})
        h == SubSeq(ranked({ Dot(idx[p], qv) : p \in DOMAIN idx }), 1, Min(k, Len(idx)))
    IN  IF Len(idx) = 0 \/ Blank(q) \/ k <= 0 THEN <<>>
        ELSE SearchResults(h, idx, mt, qv)

\* the query handler for a request with a book_id and use_cache false: the
\* cache is neither read (line 228) nor written (line 347)
QueryBook(limit) ==
    /\ ncalls < limit
    /\ \E question \in {"a", "b"}, top_k \in 1..MaxK, book \in {1, 2, 3},
          asc \in BOOLEAN, answer \in Answers :
          LET first == RankedSearch(question, SearchK(top_k, book, Len(index)), index, meta, asc)
              broader == IF OfBook(first, book) = <<>> /\ book \in BookIds(meta)
                         THEN RankedSearch(question, BroaderK(Len(index)), index, meta, asc)
                         ELSE <<>>
          IN  resp' = QueryResp(question, top_k, FALSE, book, FALSE,
                                Computed(book, top_k, first, broader, answer, index, meta))
    /\ ncalls' = ncalls + 1
    /\ UNCHANGED cacheVars
    /\ UNCHANGED storeVars

InitBroad ==
    \E n \in 0..MaxOthers, chunk \in {"a", "b"} :
       LET stored == BroadStore(n, chunk)
       IN  /\ index = [i \in DOMAIN stored |-> Normalize(Encode(stored[i].chunk))]
           /\ origin = [i \in DOMAIN stored |->
                           [book |-> stored[i].book, chunk |-> stored[i].chunk,
                            md |-> ChunkMetadata(stored[i].book, stored[i].page)]]
           /\ meta = [i \in DOMAIN stored |->
                         WithChunkText(ChunkMetadata(stored[i].book, stored[i].page),
                                       stored[i].chunk)]
           /\ vecFile = index
           /\ metaFile = meta
           /\ fileOrigin = origin
           /\ uploadFile = <<>>
           /\ images = BookIds(meta)
           /\ status = [c \in 1..(MaxCalls + MaxApiCalls) |-> NoStatus]
           /\ pc = [t \in Threads |-> "idle"]
           /\ call = [t \in Threads |-> NoCall]
           /\ ncalls = 0
           /\ resp = NoResp
           /\ redis_client = FALSE
           /\ redisDb = <<>>
           /\ memory_cache = <<>>
           /\ lastSet = <<>>
           /\ statusWritable = TRUE

NextBroad == QueryBook(MaxQueries)

SpecBroad == InitBroad /\ [][NextBroad]_vars

(***************************************************************************)
(* Uploads processed in the background and their temporary files.          *)
(***************************************************************************)
\* upload_pdf, lines 148-161: save_upload_file writes the bytes of the request
\* to UPLOAD_DIR / filename, over a file of that name if there is one, and the
\* task is queued with that path
UploadPdf(t) ==
    /\ pc[t] \in Resting
    /\ ncalls < MaxCalls
    /\ \E name \in {"x.pdf", "y.pdf"} :
          /\ uploadFile' = With(uploadFile, name, ncalls + 1)
          /\ call' = [call EXCEPT ![t] =
                [path |-> name] @@ NewCall("ingest", ncalls + 1, <<>>, <<>>)]
    /\ pc' = [pc EXCEPT ![t] = "queued"]
    /\ ncalls' = ncalls + 1
    /\ resp' = NoResp
    /\ UNCHANGED <<index, origin, meta, vecFile, metaFile, images, status, fileOrigin, statusWritable>>
    /\ UNCHANGED cacheVars

\* _process_pdf_background lines 96-108: ingest_pdf opens the file of the
\* path and indexes what it holds; a missing file ends as an exception, caught
\* at line 121
ReadUpload(t) ==
    /\ pc[t] = "queued"
    /\ IF call[t].path \in DOMAIN uploadFile
       THEN /\ call' = [call EXCEPT ![t] = [read |-> uploadFile[call[t].path]] @@ @]
            /\ pc' = [pc EXCEPT ![t] = "finish"]
            /\ status' = WriteStatus(status, call[t].book, 95, "processing")
       ELSE Raise(t, "extraction")
    /\ resp' = NoResp
    /\ UNCHANGED <<index, origin, meta, vecFile, metaFile, images, ncalls, fileOrigin, uploadFile, statusWritable>>
    /\ UNCHANGED cacheVars

\* lines 110-119: the completed status, then Path(file_path).unlink(), whose
\* failure is ignored
CompleteAndUnlink(t) ==
    /\ pc[t] = "finish"
    /\ pc' = [pc EXCEPT ![t] = "done"]
    /\ status' = WriteStatus(status, call[t].book, 100, "completed")
    /\ uploadFile' = Without(uploadFile, {call[t].path})
    /\ resp' = NoResp
    /\ UNCHANGED <<index, origin, meta, vecFile, metaFile, images, call, ncalls, fileOrigin, statusWritable>>
    /\ UNCHANGED cacheVars

\* clients uploading files under two names, the thread pool running the tasks
\* side by side; polls of their status
NextUploads ==
    \/ \E t \in Threads : UploadPdf(t)
    \/ \E t \in Threads : ReadUpload(t)
    \/ \E t \in Threads : CompleteAndUnlink(t)
    \/ Poll(MaxCalls + 1)

SpecUploads == Init /\ [][NextUploads]_vars

(***************************************************************************)
(* text_utils: texts are sequences of characters.                          *)
(***************************************************************************)
MaxPieces == 3

\* the smallest chunk _chunk_text returns
MinChunkChars == 50

\* what the texts are made of: a word of 30 characters, a word of 70, a
\* space, the end of a sentence, the end of a paragraph
Pieces ==
    { [i \in 1..30 |-> "w"], [i \in 1..70 |-> "w"], <<" ">>, <<".", " ">>, <<"\n", "\n">> }

\* the texts made of at most n of the pieces
RECURSIVE TextsFrom(_, _)
TextsFrom(pieces, n) ==
    IF n = 0 THEN {<<>>}
    ELSE TextsFrom(pieces, n - 1) \cup { t \o p : t \in TextsFrom(pieces, n - 1), p \in pieces }

\* the values of max_chars: 0, less than a long word, more than a long word
MaxCharsValues == {0, 60, 100}

\* str.isspace for one character
IsSpace(c) == c \in {" ", "\n", "\r", "\t"}

AllSpace(s) == \A i \in DOMAIN s : IsSpace(s[i])

\* str.strip()
Strip(s) ==
    IF AllSpace(s) THEN <<>>
    ELSE LET solid == { i \in DOMAIN s : ~IsSpace(s[i]) }
             lo == CHOOSE i \in solid : \A j \in solid : i <= j
             hi == CHOOSE i \in solid : \A j \in solid : i >= j
         IN  SubSeq(s, lo, hi)

\* text.split("\n\n")
RECURSIVE SplitParagraphs(_)
SplitParagraphs(s) ==
    LET breaks == { i \in 1..(Len(s) - 1) : s[i] = "\n" /\ s[i + 1] = "\n" }
    IN  IF breaks = {} THEN <<s>>
        ELSE LET i == CHOOSE b \in breaks : \A c \in breaks : b <= c
             IN  <<SubSeq(s, 1, i - 1)>> \o SplitParagraphs(SubSeq(s, i + 2, Len(s)))

\* [p.strip() for p in text.split("\n\n") if p.strip()]
Paragraphs(text) ==
    LET parts == SplitParagraphs(text)
        kept == SelectSeq(parts, LAMBDA q : ~AllSpace(q))
    IN  [i \in DOMAIN kept |-> Strip(kept[i])]

\* the classes of the patterns: [.!?], \s and what is not \s
InKind(c, kind) ==
    CASE kind = "punct" -> c \in {".", "!", "?"}
      [] kind = "space" -> IsSpace(c)
      [] kind = "word" -> ~IsSpace(c)

\* the end of the run of characters of one kind that starts at i
RunEnd(s, i, kind) ==
    CHOOSE j \in i..Len(s) :
        /\ \A k \in (i + 1)..j : InKind(s[k], kind)
        /\ j < Len(s) => ~InKind(s[j + 1], kind)

\* where the leftmost match of [.!?]+\s+ ends, 0 when there is none
SeparatorEnd(s) ==
    LET starts == { i \in DOMAIN s :
                      /\ InKind(s[i], "punct")
                      /\ RunEnd(s, i, "punct") < Len(s)
                      /\ IsSpace(s[RunEnd(s, i, "punct") + 1]) }
    IN  IF starts = {} THEN 0
        ELSE LET i == CHOOSE b \in starts : \A c \in starts : b <= c
             IN  RunEnd(s, RunEnd(s, i, "punct") + 1, "space")

\* re.split(r'([.!?]+\s+)', para) taken two by two: every sentence with the
\* separator that follows it
RECURSIVE Sentences(_)
Sentences(para) ==
    IF SeparatorEnd(para) = 0 THEN <<para>>
    ELSE <<SubSeq(para, 1, SeparatorEnd(para))>>
            \o Sentences(SubSeq(para, SeparatorEnd(para) + 1, Len(para)))

\* TextWrapper._munge_whitespace and _split_chunks: every whitespace character
\* becomes a space, then the text is cut into words and runs of spaces
RECURSIVE WordChunks(_)
WordChunks(s) ==
    IF s = <<>> THEN <<>>
    ELSE LET j == IF IsSpace(s[1]) THEN RunEnd(s, 1, "space")
                  ELSE RunEnd(s, 1, "word")
         IN  <<[i \in 1..j |-> IF IsSpace(s[i]) THEN " " ELSE s[i]]>>
                \o WordChunks(SubSeq(s, j + 1, Len(s)))

\* ''.join(cur_line)
RECURSIVE Concat(_)
Concat(ss) == IF ss = <<>> THEN <<>> ELSE Head(ss) \o Concat(Tail(ss))

\* textwrap.wrap(sentence, max_chars, break_long_words=False,
\* break_on_hyphens=False) for a width above 0 is WrapChunks(WordChunks(sentence),
\* max_chars, <<>>).  TextWrapper._wrap_chunks with break_long_words off: a line takes chunks
\* while they fit, a word longer than the width gets a line of its own, and
\* the spaces at the end of a line and at the start of the next are dropped
RECURSIVE WrapChunks(_, _, _)
WrapChunks(chunks, width, lines) ==
    IF chunks = <<>> THEN lines
    ELSE LET cs == IF AllSpace(chunks[1]) /\ lines # <<>> THEN Tail(chunks) ELSE chunks
             fits == { n \in 0..Len(cs) : Len(Concat(SubSeq(cs, 1, n))) <= width }
             n == CHOOSE k \in fits : \A l \in fits : k >= l
             long == n = 0 /\ cs # <<>>
             taken == IF long THEN <<cs[1]>> ELSE SubSeq(cs, 1, n)
             rest == IF long THEN Tail(cs) ELSE SubSeq(cs, n + 1, Len(cs))
             line == IF taken # <<>> /\ AllSpace(taken[Len(taken)])
                     THEN SubSeq(taken, 1, Len(taken) - 1) ELSE taken
         IN  WrapChunks(rest, width, IF line = <<>> THEN lines ELSE Append(lines, Concat(line)))

\* [w.strip() for w in wrapped if w.strip()]
StrippedLines(lines) ==
    LET kept == SelectSeq(lines, LAMBDA w : ~AllSpace(w))
    IN  [i \in DOMAIN kept |-> Strip(kept[i])]

AppendStripped(chunks, current) ==
    IF AllSpace(current) THEN chunks ELSE Append(chunks, Strip(current))

\* the loop over the sentences of a paragraph longer than max_chars; raised
\* is set when textwrap.wrap rejects a width that is not positive
RECURSIVE SentenceLoop(_, _, _)
SentenceLoop(sentences, max_chars, acc) ==
    IF sentences = <<>> \/ acc.raised THEN acc
    ELSE LET sentence == Head(sentences) IN
         SentenceLoop(Tail(sentences), max_chars,
            IF Len(acc.current) + Len(sentence) <= max_chars
            THEN [acc EXCEPT !.current = acc.current \o sentence]
            ELSE IF Len(sentence) > max_chars
                 THEN IF max_chars <= 0
                      THEN [acc EXCEPT !.raised = TRUE]
                      ELSE [acc EXCEPT
                              !.chunks = AppendStripped(acc.chunks, acc.current)
                                            \o StrippedLines(WrapChunks(WordChunks(sentence), max_chars, <<>>)),
                              !.current = <<>>]
                 ELSE [acc EXCEPT
                         !.chunks = AppendStripped(acc.chunks, acc.current),
                         !.current = sentence])

\* the loop over the paragraphs
RECURSIVE ParagraphLoop(_, _, _)
ParagraphLoop(paragraphs, max_chars, acc) ==
    IF paragraphs = <<>> \/ acc.raised THEN acc
    ELSE LET para == Head(paragraphs) IN
         ParagraphLoop(Tail(paragraphs), max_chars,
            IF Len(para) <= max_chars
            THEN [acc EXCEPT !.chunks = Append(acc.chunks, para)]
            ELSE LET done == SentenceLoop(Sentences(para), max_chars,
                                          [acc EXCEPT !.current = <<>>])
                 IN  IF done.raised THEN done
                     ELSE [done EXCEPT !.chunks = AppendStripped(done.chunks, done.current),
                                       !.current = <<>>])

\* a _chunk_text that returns every chunk it made
LongEnough_Unfiltered(c) == TRUE

\* the filter of the return statement: len(c.strip()) >= 50
LongEnough(c) == Len(Strip(c)) >= MinChunkChars

\* _chunk_text(text, max_chars): the chunks it returns, or the ValueError of
\* textwrap.wrap
ChunkText(text, max_chars) ==
    IF text = <<>> \/ AllSpace(text)
    THEN [raised |-> FALSE, chunks |-> <<>>]
    ELSE LET done == ParagraphLoop(Paragraphs(text), max_chars,
                                   [raised |-> FALSE, chunks |-> <<>>, current |-> <<>>])
         IN  [raised |-> done.raised,
              chunks |-> IF done.raised THEN <<>> ELSE SelectSeq(done.chunks, LongEnough)]

\* one call _chunk_text(text, max_chars), waiting to be made
InitChunkText ==
    /\ index = <<>>
    /\ origin = <<>>
    /\ meta = <<>>
    /\ vecFile = <<>>
    /\ metaFile = <<>>
    /\ fileOrigin = <<>>
    /\ uploadFile = <<>>
    /\ images = {}
    /\ status = [c \in 1..(MaxCalls + MaxApiCalls) |-> NoStatus]
    /\ pc = [t \in Threads |-> "idle"]
    /\ \E text \in TextsFrom(Pieces, MaxPieces), max_chars \in MaxCharsValues :
          call = [t \in Threads |->
                    IF t = Caller
                    THEN [op |-> "chunk_text", text |-> text, max_chars |-> max_chars]
                    ELSE NoCall]
    /\ ncalls = 0
    /\ resp = NoResp
    /\ redis_client = FALSE
    /\ redisDb = <<>>
    /\ memory_cache = <<>>
    /\ lastSet = <<>>
    /\ statusWritable = TRUE

\* the call is made
CallChunkText ==
    /\ call[Caller].op = "chunk_text"
    /\ resp = NoResp
    /\ resp' = [kind |-> "chunks", text |-> call[Caller].text,
                max_chars |-> call[Caller].max_chars]
                  @@ ChunkText(call[Caller].text, call[Caller].max_chars)
    /\ ncalls' = ncalls + 1
    /\ UNCHANGED storeVars
    /\ UNCHANGED cacheVars

NextChunkText == CallChunkText

SpecChunkText == InitChunkText /\ [][NextChunkText]_vars

(***************************************************************************)
(* clean_text.                                                             *)
(***************************************************************************)
MaxCleanPieces == 5

\* what the extracted texts are made of: a letter, a hyphen at the end of a
\* line, a carriage return, a newline, a space
CleanPieces == { <<"a">>, <<"-", "\n">>, <<"\r">>, <<"\n">>, <<" ">> }

\* \w for the characters of the texts
IsWordChar(c) == c \notin {" ", "\n", "\r", "\t", "-", ".", "!", "?"}

\* re.sub(r"\r", "\n", text)
ReturnsToNewlines(s) == [i \in DOMAIN s |-> IF s[i] = "\r" THEN "\n" ELSE s[i]]

\* re.sub of a run of at least atLeast characters c by `by`, leftmost runs
\* first, each run taken whole
RECURSIVE CollapseRuns(_, _, _, _)
CollapseRuns(s, c, atLeast, by) ==
    IF s = <<>> THEN <<>>
    ELSE IF s[1] = c
    THEN LET RECURSIVE End(_)
             End(i) == IF i < Len(s) /\ s[i + 1] = c THEN End(i + 1) ELSE i
             j == End(1)
         IN  (IF j >= atLeast THEN by ELSE SubSeq(s, 1, j))
                \o CollapseRuns(SubSeq(s, j + 1, Len(s)), c, atLeast, by)
    ELSE <<s[1]>> \o CollapseRuns(Tail(s), c, atLeast, by)

\* whether (\w)-\n(\w) matches at the start of s
IsSplitWord(s) ==
    /\ Len(s) >= 4
    /\ IsWordChar(s[1])
    /\ s[2] = "-"
    /\ s[3] = "\n"
    /\ IsWordChar(s[4])

\* re.sub(r"(\w)-\n(\w)", r"\1\2", text): the matches are found from left to
\* right and do not overlap, the search goes on after the second letter
RECURSIVE Rejoin(_)
Rejoin(s) ==
    IF s = <<>> THEN <<>>
    ELSE IF IsSplitWord(s)
    THEN <<s[1], s[4]>> \o Rejoin(SubSeq(s, 5, Len(s)))
    ELSE <<s[1]>> \o Rejoin(Tail(s))

\* clean_text
CleanText(text) ==
    Strip(CollapseRuns(Rejoin(CollapseRuns(ReturnsToNewlines(text), "\n", 3, <<"\n", "\n">>)),
                       " ", 1, <<" ">>))

\* one call clean_text(text), waiting to be made
InitCleanText ==
    /\ index = <<>>
    /\ origin = <<>>
    /\ meta = <<>>
    /\ vecFile = <<>>
    /\ metaFile = <<>>
    /\ fileOrigin = <<>>
    /\ uploadFile = <<>>
    /\ images = {}
    /\ status = [c \in 1..(MaxCalls + MaxApiCalls) |-> NoStatus]
    /\ pc = [t \in Threads |-> "idle"]
    /\ \E text \in TextsFrom(CleanPieces, MaxCleanPieces) :
          call = [t \in Threads |->
                    IF t = Caller THEN [op |-> "clean_text", text |-> text] ELSE NoCall]
    /\ ncalls = 0
    /\ resp = NoResp
    /\ redis_client = FALSE
    /\ redisDb = <<>>
    /\ memory_cache = <<>>
    /\ lastSet = <<>>
    /\ statusWritable = TRUE

\* the call is made
CallCleanText ==
    /\ call[Caller].op = "clean_text"
    /\ resp = NoResp
    /\ resp' = [kind |-> "clean", text |-> call[Caller].text,
                out |-> CleanText(call[Caller].text)]
    /\ ncalls' = ncalls + 1
    /\ UNCHANGED storeVars
    /\ UNCHANGED cacheVars

NextCleanText == CallCleanText

SpecCleanText == InitCleanText /\ [][NextCleanText]_vars

(***************************************************************************)
(* _normalize and the normalization of add_batch in floating point.  The   *)
(* vectors are np.float32; here a float is a binary floating-point number  *)
(* of reduced width, written as the integer count of its smallest step:    *)
(* FloatOne stands for 1.0, a float has at most MantissaBits significant   *)
(* bits, every operation rounds its exact result to the nearest float,     *)
(* ties to the even mantissa, and a result below half the smallest step    *)
(* underflows to 0.                                                        *)
(***************************************************************************)
MaxComponent == 20

FloatOne == 16

MantissaBits == 4

\* above every result of the operations on the vectors considered
FloatTop == 1024

\* the distance from a float to the next one: 1 up to MantissaBits bits, then
\* doubled with every further bit
Ulp(n) ==
    LET RECURSIVE BitLen(_)
        BitLen(m) == IF m = 0 THEN 0 ELSE 1 + BitLen(m \div 2)
        RECURSIVE Pow2(_)
        Pow2(k) == IF k <= 0 THEN 1 ELSE 2 * Pow2(k - 1)
    IN  Pow2(BitLen(n) - MantissaBits)

Floats == { n \in 0..FloatTop : n % Ulp(n) = 0 }

\* of the floats below and above a number the nearer one, the one with the
\* even mantissa when they are equally near; nearer is the distance to lo
\* minus the distance to hi, or any number of the same sign
Nearest(lo, hi, nearer) ==
    IF nearer < 0 THEN lo
    ELSE IF nearer > 0 THEN hi
    ELSE IF (lo \div Ulp(lo)) % 2 = 0 THEN lo ELSE hi

\* the largest and the smallest float of a set
Largest(fs) == CHOOSE f \in fs : \A g \in fs : g <= f

Smallest(fs) == CHOOSE f \in fs : \A g \in fs : g >= f

\* the float nearest to num / den
RoundNearest(num, den) ==
    LET lo == Largest({ f \in Floats : f * den <= num })
        hi == Smallest({ f \in Floats : f * den >= num })
    IN  Nearest(lo, hi, (num - lo * den) - (hi * den - num))

FloatDiv(a, b) == RoundNearest(a * FloatOne, b)

\* the float nearest to the square root of a
FloatSqrt(a) ==
    LET lo == Largest({ f \in Floats : f * f <= a * FloatOne })
        hi == Smallest({ f \in Floats : f * f >= a * FloatOne })
    IN  Nearest(lo, hi, 4 * a * FloatOne - (lo + hi) * (lo + hi))

\* np.linalg.norm(vec): the square root of the sum of the squares, the
\* squares and the sum rounded
FloatNorm(v) ==
    FloatSqrt(RoundNearest(RoundNearest(v[1] * v[1], FloatOne)
                              + RoundNearest(v[2] * v[2], FloatOne), 1))

\* EmbedStore._normalize: vec / norm when norm > 0, else vec
FloatNormalize(v) ==
    IF FloatNorm(v) > 0
    THEN <<FloatDiv(v[1], FloatNorm(v)), FloatDiv(v[2], FloatNorm(v))>>
    ELSE v

\* add_batch lines 134-136 on one row: norms[norms == 0] = 1, then the division
FloatNormalizeRow(v) ==
    LET norm == IF FloatNorm(v) = 0 THEN FloatOne ELSE FloatNorm(v)
    IN  <<FloatDiv(v[1], norm), FloatDiv(v[2], norm)>>

\* the vectors given to the normalization
Components == { n \in Floats : n <= MaxComponent }

\* one call of _normalize(vec) and of the row normalization, waiting to be made
InitNormalize ==
    /\ index = <<>>
    /\ origin = <<>>
    /\ meta = <<>>
    /\ vecFile = <<>>
    /\ metaFile = <<>>
    /\ fileOrigin = <<>>
    /\ uploadFile = <<>>
    /\ images = {}
    /\ status = [c \in 1..(MaxCalls + MaxApiCalls) |-> NoStatus]
    /\ pc = [t \in Threads |-> "idle"]
    /\ \E x \in Components, y \in Components :
          call = [t \in Threads |->
                    IF t = Caller THEN [op |-> "normalize", vec |-> <<x, y>>] ELSE NoCall]
    /\ ncalls = 0
    /\ resp = NoResp
    /\ redis_client = FALSE
    /\ redisDb = <<>>
    /\ memory_cache = <<>>
    /\ lastSet = <<>>
    /\ statusWritable = TRUE

\* the calls are made: the vector normalized once and twice, by _normalize
\* and as a row of add_batch
CallNormalize ==
    /\ call[Caller].op = "normalize"
    /\ resp = NoResp
    /\ resp' = [kind |-> "normalize", vec |-> call[Caller].vec,
                once |-> FloatNormalize(call[Caller].vec),
                twice |-> FloatNormalize(FloatNormalize(call[Caller].vec)),
                row |-> FloatNormalizeRow(call[Caller].vec),
                rowTwice |-> FloatNormalizeRow(FloatNormalizeRow(call[Caller].vec))]
    /\ ncalls' = ncalls + 1
    /\ UNCHANGED storeVars
    /\ UNCHANGED cacheVars

NextNormalize == CallNormalize

SpecNormalize == InitNormalize /\ [][NextNormalize]_vars

\* the tasks that have a status file
Tasks == { c \in DOMAIN status : status[c] # NoStatus }

\* C22: the progress written to the status record of a task never decreases,
\* from the first write to the terminal one, and lies in 0..100.
C22_ProgressNeverDecreases ==
    [][\A c \in Tasks :
          /\ status'[c].progress >= status[c].progress
          /\ status'[c].progress \in 0..100]_vars

\* the phase of a run, by the place of its thread
PhaseOf(place) ==
    CASE place = "queued" -> 1
      [] place = "extract" -> 2
      [] place = "chunk" -> 3
      [] place = "embed" -> 4
      [] place \in {"index", "meta", "save"} -> 5
      [] place \in {"images", "finish"} -> 6
      [] place = "done" -> 7
      [] place = "error" -> 8

\* C23: a run goes through Received, Extracting, Chunking, Embedding, Indexing,
\* PersistingImages and Done in this order, one phase at a time unless it goes
\* to Error; Done and Error are left only by a new run, and a status record
\* that says completed or error never changes.
C23_PhasesInOrder ==
    [][/\ \A t \in Threads :
             (call[t].op = "ingest" /\ call'[t].book = call[t].book)
                => /\ pc[t] \in {"done", "error"} => pc'[t] = pc[t]
                   /\ pc'[t] # pc[t]
                         => \/ pc'[t] = "error"
                            \/ PhaseOf(pc'[t]) \in {PhaseOf(pc[t]), PhaseOf(pc[t]) + 1}
       /\ \A c \in Tasks :
             status[c].status \in {"completed", "error"} => status'[c] = status[c]
      ]_vars

\* a run that ended in Error while persisting its images, the last phase
\* before Done
C23_Witness ==
    \E t \in Threads :
        /\ call[t].op = "ingest"
        /\ pc[t] = "error"
        /\ call[t].failedAt = "images"
        /\ status[call[t].book].status = "error"

\* C24: every poll with the handle of an accepted upload finds a status
\* record.
C24_PollFindsStatus == resp.kind = "status" => resp.found

\* C25: a run that ended with an exception has the status error, with the
\* message of the exception.
C25_FailureIsSurfaced ==
    \A t \in Threads :
        (call[t].op = "ingest" /\ pc[t] = "error")
            => /\ status[call[t].book].status = "error"
               /\ status[call[t].book].error = call[t].failedAt

\* C26: a run whose extraction yields no chunks is rejected before any
\* embedding: no run gets past extraction without chunks, and a run rejected
\* while extracting or chunking leaves no vector, no metadata record and no
\* page image of its book.
C26_EmptyDocumentRejected ==
    \A t \in Threads :
        call[t].op = "ingest"
            => /\ pc[t] \in {"chunk", "embed", "index", "meta", "save", "images", "finish", "done"}
                     => call[t].doc # <<>>
               /\ (pc[t] = "error" /\ call[t].failedAt \in {"extraction", "chunking"})
                     => /\ NoEntryOf(call[t].book)
                        /\ call[t].book \notin images
                        /\ call[t].chunks = <<>>

\* a run rejected at the extraction, in a store that holds entries of another run
C26_Witness ==
    \E t \in Threads :
        /\ call[t].op = "ingest"
        /\ pc[t] = "error"
        /\ call[t].failedAt = "extraction"
        /\ Len(meta) > 0

\* C27: a query that names a book the store has no entry of gets a response
\* with status 200 and an empty list of sources.
C27_AbsentBookGivesNoSources ==
    (resp.kind = "query" /\ resp.book # NoBook /\ ~Blank(resp.question)
        /\ resp.book \notin BookIds(meta))
        => resp.code = 200 /\ resp.sources = <<>>

\* C28: every chunk _chunk_text returns has at least 50 characters and is not
\* made of whitespace only, and a text that is empty or made of whitespace
\* only gives no chunk.
C28_ChunksAtLeastFifty ==
    resp.kind = "chunks"
        => /\ \A i \in DOMAIN resp.chunks :
                 /\ Len(resp.chunks[i]) >= MinChunkChars
                 /\ ~AllSpace(resp.chunks[i])
           /\ AllSpace(resp.text) => (~resp.raised /\ resp.chunks = <<>>)

\* a text of which one chunk is returned and a shorter one is dropped
C28_Witness ==
    /\ resp.kind = "chunks"
    /\ resp.max_chars = 100
    /\ Len(resp.chunks) = 1
    /\ Len(Paragraphs(resp.text)) = 2

\* the positions of a text where s occurs
Occurs(text, s) ==
    \E i \in 0..(Len(text) - Len(s)) : \A j \in DOMAIN s : text[i + j] = s[j]

\* a letter, a hyphen, a newline and a letter in a row
HasSplitWord(text) ==
    \E i \in 1..(Len(text) - 3) : IsSplitWord(SubSeq(text, i, Len(text)))

\* C29: the output of clean_text has no word split by a hyphen at the end of
\* a line, no carriage return, no run of three newlines and no run of two
\* spaces.
C29_CleanTextRejoinsEverySplit ==
    resp.kind = "clean"
        => /\ ~HasSplitWord(resp.out)
           /\ ~Occurs(resp.out, <<"\r">>)
           /\ ~Occurs(resp.out, <<"\n", "\n", "\n">>)
           /\ ~Occurs(resp.out, <<" ", " ">>)

\* C30: the normalized vector has norm 1.0 unless the vector is the zero
\* vector, which is returned as it is, and normalizing twice gives what
\* normalizing once gives; the same for a row of add_batch.
C30_NormalizeGivesUnitNorm ==
    resp.kind = "normalize"
        => /\ resp.vec = <<0, 0>> => (resp.once = resp.vec /\ resp.row = resp.vec)
           /\ resp.vec # <<0, 0>>
                 => (FloatNorm(resp.once) = FloatOne /\ FloatNorm(resp.row) = FloatOne)
           /\ resp.twice = resp.once
           /\ resp.rowTwice = resp.row

\* C38: with max_chars of at least 50, every chunk _chunk_text returns has at
\* most max_chars characters.
C38_ChunksAtMostMaxChars ==
    (resp.kind = "chunks" /\ resp.max_chars >= MinChunkChars)
        => \A i \in DOMAIN resp.chunks : Len(resp.chunks[i]) <= resp.max_chars

\* C33: the response to a query restricted to a book holds sources of that
\* book only, whatever the queries before it.
C33_SourcesOfRequestedBookOnly ==
    (resp.kind = "query" /\ resp.book # NoBook)
        => \A i \in DOMAIN resp.sources : resp.sources[i].book_id = resp.book

\* C34: the response to a query holds at most top_k sources, whatever the
\* queries before it.
C34_AtMostTopKSources ==
    resp.kind = "query" => Len(resp.sources) <= resp.top_k

\* C31: a get returns absent or the value of the last set of its key, never
\* the value of an earlier set.
C31_NoSupersededValue ==
    (resp.kind = "cache" /\ resp.op = "get" /\ resp.value # None)
        => /\ resp.key \in DOMAIN lastSet
           /\ resp.value = lastSet[resp.key].value

\* C32: after a clear of its namespace, or of all namespaces, and until the
\* next set under the namespace, a get of a key returns absent.
C32_ClearedKeyIsAbsent ==
    (/\ resp.kind = "cache" /\ resp.op = "get"
     /\ resp.key \in DOMAIN lastSet
     /\ lastSet[resp.key].cleared)
        => resp.value = None

\* the pages a book has entries of
PagesOf(book) ==
    { meta[i].page : i \in { j \in DOMAIN meta : meta[j].book_id = book } }

\* C35: a query restricted to a book the index has entries of returns at least
\* one source, and min(top_k, pages of the book) sources, however many entries
\* of other books rank before them.
C35_IndexedBookGivesSources ==
    (resp.kind = "query" /\ resp.book # NoBook /\ resp.book \in BookIds(meta))
        => /\ resp.sources # <<>>
           /\ Len(resp.sources) = Min(resp.top_k, Cardinality(PagesOf(resp.book)))

\* C39: when the status of a task is completed, the two files hold every
\* entry of its document, the vectors and the metadata records.
C39_CompletedRunIsOnDisk ==
    \A c \in Tasks :
        status[c].status = "completed"
            => /\ \E i \in DOMAIN origin : origin[i].book = c
               /\ \A i \in DOMAIN origin :
                     origin[i].book = c
                         => /\ i \in DOMAIN fileOrigin /\ fileOrigin[i] = origin[i]
                            /\ i \in DOMAIN metaFile /\ i \in DOMAIN meta
                            /\ metaFile[i] = meta[i]

\* C36: every accepted background task eventually has a terminal status,
\* completed or error.
C36_TaskReachesTerminalStatus ==
    \A c \in 1..MaxCalls :
        (call[Caller].op = "ingest" /\ call[Caller].book = c)
            ~> (status[c].status \in {"completed", "error"})

\* C37: no run of an upload fails for a missing file, and every run reads the
\* bytes uploaded with its own request, whatever the other uploads do to a
\* file of the same name.
C37_UploadsAreIndependent ==
    \A t \in Threads :
        call[t].op = "ingest"
            => /\ pc[t] # "error"
               /\ pc[t] \in {"finish", "done"} => call[t].read = call[t].book
====
